---- MODULE Spec2Model ----
(***************************************************************************)
(* Restaurant picker API: JWT authentication, the in-memory rate limiter   *)
(* of /api/auth, and the fetch / modify / compare-and-swap write protocol  *)
(* of the restaurant and profile handlers against the versioned document   *)
(* (restaurants.json) kept behind the GitHub contents API.                 *)
(***************************************************************************)
EXTENDS Integers, Sequences, FiniteSets, TLC

(***************************************************************************)
(* Bounds of the model.                                                    *)
(***************************************************************************)
\* number of write requests in flight in Spec
NumReq == 2
\* number of /api/auth calls and of clock ticks in SpecRate
MaxCalls == 3
MaxTicks == 2
\* number of /api/auth calls in SpecAuth
MaxLogins == 2
\* number of /api/auth calls that wait at an await at one time
MaxInFlight == 2
\* number of accepted writes in SpecSeq
MaxWrites == 2

Reqs == 1..NumReq

(***************************************************************************)
(* JavaScript values of the request bodies and of the stored document.     *)
(* k is the type, s the text of a string or the decimal text of a number,  *)
(* a the elements of an array of strings.                                  *)
(***************************************************************************)
Undef  == [k |-> "undef", s |-> "", a |-> <<>>]
Str(x) == [k |-> "str", s |-> x, a |-> <<>>]
Num(x) == [k |-> "num", s |-> x, a |-> <<>>]
Arr(q) == [k |-> "arr", s |-> "", a |-> q]

\* !v is false
Truthy(v) ==
  CASE v.k = "undef" -> FALSE
    [] v.k = "str"   -> v.s # ""
    [] v.k = "num"   -> v.s # "0"
    [] OTHER         -> TRUE

\* Array.isArray(v)
IsArray(v) == v.k = "arr"

\* String(v) of a string or a number
String(v) == v.s

\* a === b
StrictEq(a, b) == a = b

RECURSIVE Join(_, _)
\* q.join(sep) of an array of strings
Join(q, sep) ==
  IF q = <<>> THEN ""
  ELSE IF Len(q) = 1 THEN q[1]
       ELSE q[1] \o sep \o Join(Tail(q), sep)

\* generateUUID: the template, in which every x is replaced by a random
\* hexadecimal digit r and y by the digit (r & 0x3) | 0x8
UuidTemplate ==
  <<"x", "x", "x", "x", "x", "x", "x", "x", "-", "x", "x", "x", "x", "-",
    "4", "x", "x", "x", "-", "y", "x", "x", "x", "-",
    "x", "x", "x", "x", "x", "x", "x", "x", "x", "x", "x", "x">>

\* v.toString(16) of 0..15
HexDigit(v) ==
  <<"0", "1", "2", "3", "4", "5", "6", "7", "8", "9", "a", "b", "c", "d", "e", "f">>[v + 1]

\* the number of the replacement made at position i of the template: the
\* callback of replace runs once for every x and y, from left to right
Replacement(i) == Cardinality({j \in 1..i : UuidTemplate[j] \in {"x", "y"}})

\* The values (Math.random() * 16) | 0 of the replacements of one call.
\* Math.random is not seeded by the program: each value is any of 0..15,
\* and two calls may draw the same values.  The draws the model chooses
\* from: four in which the values differ from one replacement to the next
\* and the variant digit takes each of its four values, and the draws of one
\* call of the program.
RandomDraws ==
  {[i \in 1..Replacement(Len(UuidTemplate)) |-> (k + i) % 16] : k \in {0, 5, 10, 15}}
    \cup {<<9, 2, 0, 2, 5, 2, 15, 7, 12, 3, 6, 10, 14, 7, 9, 11, 15, 2, 15, 0, 2, 10,
            15, 5, 14, 4, 4, 7, 7, 0, 11>>}

\* a generator that leaves the variant digit unmasked
UuidChars_NoVariant(draws) ==
  [i \in 1..Len(UuidTemplate) |->
     IF UuidTemplate[i] \in {"x", "y"} THEN HexDigit(draws[Replacement(i)])
     ELSE UuidTemplate[i]]

\* the characters of the UUID generated from draws
UuidChars(draws) ==
  [i \in 1..Len(UuidTemplate) |->
     CASE UuidTemplate[i] = "x" -> HexDigit(draws[Replacement(i)])
       [] UuidTemplate[i] = "y" -> HexDigit((draws[Replacement(i)] % 4) + 8)
       [] OTHER                 -> UuidTemplate[i]]

\* generateUUID() of a call whose Math.random() values are draws
generateUUID(draws) == Join(UuidChars(draws), "")

\* the UUIDs of RandomDraws
Generated == [draws \in RandomDraws |-> generateUUID(draws)]

\* the characters of the strings the model uses
Chars(s) ==
  CASE s = ""            -> <<>>
    [] s = " "           -> <<" ">>
    [] s = "all"         -> <<"a", "l", "l">>
    [] s = "p1"          -> <<"p", "1">>
    [] s = "p2"          -> <<"p", "2">>
    [] s = "p3"          -> <<"p", "3">>
    [] s = "p9"          -> <<"p", "9">>
    [] s = "Bad_Id"      -> <<"B", "a", "d", "_", "I", "d">>
    [] s = "Taco"        -> <<"T", "a", "c", "o">>
    [] s = "Soup"        -> <<"S", "o", "u", "p">>
    [] s = "Lunch"       -> <<"L", "u", "n", "c", "h">>
    [] s = "Work"        -> <<"W", "o", "r", "k">>
    [] s = "1"           -> <<"1">>
    [] s = "2"           -> <<"2">>
    [] s = "9"           -> <<"9">>
    [] s = "menu"        -> <<"m", "e", "n", "u">>
    [] s = "http://"     -> <<"h", "t", "t", "p", ":", "/", "/">>
    [] s = "http://a.io/m" ->
         <<"h", "t", "t", "p", ":", "/", "/", "a", ".", "i", "o", "/", "m">>
    [] s = "mailto:x"    -> <<"m", "a", "i", "l", "t", "o", ":", "x">>
    [] \E draws \in RandomDraws : s = Generated[draws] ->
         UuidChars(CHOOSE draws \in RandomDraws : s = Generated[draws])
    [] OTHER             -> <<"?">>

Whitespace == {" "}
LowerAlnumHyphen ==
  {"a", "b", "c", "d", "e", "f", "g", "h", "i", "j", "k", "l", "m", "n", "o",
   "p", "q", "r", "s", "t", "u", "v", "w", "x", "y", "z",
   "0", "1", "2", "3", "4", "5", "6", "7", "8", "9", "-"}

\* s.trim() === ''
TrimIsEmpty(s) == \A i \in 1..Len(Chars(s)) : Chars(s)[i] \in Whitespace

RECURSIVE Filter(_, _)
\* q.filter((p) => p !== x)
Filter(q, x) ==
  IF q = <<>> THEN <<>>
  ELSE IF Head(q) # x THEN <<Head(q)>> \o Filter(Tail(q), x)
       ELSE Filter(Tail(q), x)

\* q.findIndex(pred), 0 for -1; hits[i] is pred(q[i])
FindIndex(hits) ==
  IF \E i \in 1..Len(hits) : hits[i]
  THEN CHOOSE i \in 1..Len(hits) : hits[i] /\ \A j \in 1..(i - 1) : ~hits[j]
  ELSE 0

\* q.splice(i, 1)
Splice(q, i) == [j \in 1..(Len(q) - 1) |-> IF j < i THEN q[j] ELSE q[j + 1]]

(***************************************************************************)
(* Validation (_shared.js).                                                *)
(***************************************************************************)
validServiceTypes == {"takeout", "delivery", "dine-in", "at-home"}

validateServiceTypes(serviceTypes) ==
  LET invalidTypes == SelectSeq(serviceTypes, LAMBDA st : st \notin validServiceTypes)
  IN  [valid |-> Len(invalidTypes) = 0, invalidTypes |-> invalidTypes]

\* /^[a-z0-9-]+$/.test(profileId)
validateProfileId(profileId) ==
  /\ Len(Chars(String(profileId))) > 0
  /\ \A i \in 1..Len(Chars(String(profileId))) :
        Chars(String(profileId))[i] \in LowerAlnumHyphen

\* restaurant.name.trim() raises a TypeError for a truthy name that is no string
validateThrows(restaurant) == Truthy(restaurant.name) /\ restaurant.name.k # "str"

validateRestaurantData(restaurant) ==
  LET e1 == IF ~Truthy(restaurant.name) \/ TrimIsEmpty(restaurant.name.s)
            THEN <<"Restaurant name is required">> ELSE <<>>
      e2 == IF ~IsArray(restaurant.foodTypes) \/ Len(restaurant.foodTypes.a) = 0
            THEN <<"At least one food type is required">> ELSE <<>>
      e3 == IF ~IsArray(restaurant.serviceTypes) \/ Len(restaurant.serviceTypes.a) = 0
            THEN <<"At least one service type is required">> ELSE <<>>
      e4 == IF IsArray(restaurant.serviceTypes)
               /\ ~validateServiceTypes(restaurant.serviceTypes.a).valid
            THEN <<"Invalid service types: "
                     \o Join(validateServiceTypes(restaurant.serviceTypes.a).invalidTypes,
                             ", ")>>
            ELSE <<>>
      e5 == IF Truthy(restaurant.profiles) /\ ~IsArray(restaurant.profiles)
            THEN <<"Profiles must be an array">> ELSE <<>>
      e6 == IF Truthy(restaurant.dietaryRestrictions)
               /\ ~IsArray(restaurant.dietaryRestrictions)
            THEN <<"Dietary restrictions must be an array">> ELSE <<>>
      errors == e1 \o e2 \o e3 \o e4 \o e5 \o e6
  IN  [valid |-> Len(errors) = 0, errors |-> errors]

\* new URL(url) without a base: the scheme of the WHATWG URL parser
SchemeStart ==
  {"a", "b", "c", "d", "e", "f", "g", "h", "i", "j", "k", "l", "m", "n", "o",
   "p", "q", "r", "s", "t", "u", "v", "w", "x", "y", "z",
   "A", "B", "C", "D", "E", "F", "G", "H", "I", "J", "K", "L", "M", "N", "O",
   "P", "Q", "R", "S", "T", "U", "V", "W", "X", "Y", "Z"}
SchemeRest ==
  SchemeStart \cup {"0", "1", "2", "3", "4", "5", "6", "7", "8", "9", "+", "-", "."}

\* schemes whose URL needs a host
HostSchemes ==
  {<<"h", "t", "t", "p">>, <<"h", "t", "t", "p", "s">>, <<"f", "t", "p">>,
   <<"w", "s">>, <<"w", "s", "s">>}

\* the position of the first ':' of c, 0 if there is none
ColonAt(c) ==
  IF \E i \in 1..Len(c) : c[i] = ":"
  THEN CHOOSE i \in 1..Len(c) : c[i] = ":" /\ \A j \in 1..(i - 1) : c[j] # ":"
  ELSE 0

\* new URL(s) does not throw: s starts with a scheme and, for a scheme that
\* needs a host, something follows its slashes
ParsesAsURL(s) ==
  LET c == Chars(s)
      n == ColonAt(c)
  IN  /\ n > 1
      /\ c[1] \in SchemeStart
      /\ \A i \in 2..(n - 1) : c[i] \in SchemeRest
      /\ SubSeq(c, 1, n - 1) \in HostSchemes
           => \E i \in (n + 1)..Len(c) : c[i] \notin {"/", "\\"}

\* validateURL(url) without the reachability probe
validateURL(url) ==
  IF ~Truthy(url) THEN [valid |-> TRUE, error |-> ""]
  ELSE IF ParsesAsURL(String(url)) THEN [valid |-> TRUE, error |-> ""]
  ELSE [valid |-> FALSE, error |-> "Invalid URL format"]

(***************************************************************************)
(* State.                                                                  *)
(***************************************************************************)
VARIABLES
  env,            \* JWT_SECRET and ADMIN_PASSWORD of the deployment
  store,          \* restaurants.json behind the contents API: document and file SHA
  reqs,           \* the write requests: position in the handler and its locals
  commits,        \* the document versions of the store, oldest first
  clock,          \* Date.now(), milliseconds
  rateLimitStore, \* the Map of checkRateLimit
  uncleaned,      \* the Map as it would be had no cleanup ever run
  issued,         \* tokens returned by /api/auth
  passes,         \* per client key, the times of the /api/auth calls not answered 429
  pending,        \* the /api/auth calls that wait for their body or for the signature
  lastAuth,       \* the /api/auth call answered last and its response
  lastCheck,      \* the last call of checkRateLimit: entry before, entry after, result
  lastVerify,     \* the last verifyAuth of an issued token on a protected endpoint
  window,         \* per client key, the rate-limit window the calls made imply
  nCalls,         \* /api/auth calls made
  nTicks          \* clock ticks made

storeVars == <<store, reqs, commits>>
authVars == <<clock, rateLimitStore, uncleaned, issued, passes, pending, lastAuth, lastCheck,
              lastVerify, window, nCalls, nTicks>>
vars == <<env, store, reqs, commits, clock, rateLimitStore, uncleaned, issued, passes,
          pending, lastAuth, lastCheck, lastVerify, window, nCalls, nTicks>>

(***************************************************************************)
(* Tokens (jwt-helper.js).  The HMAC is the pair of key and message, two   *)
(* signatures are equal exactly when key and message are.  A segment       *)
(* carries whether it decodes: json for header and payload (base64 of      *)
(* JSON), b64 for the signature (base64 of bytes).                         *)
(***************************************************************************)
JwtHeader == [json |-> TRUE, alg |-> "HS256", typ |-> "JWT"]

\* a header segment that is not base64 of JSON
GarbageHeader == [json |-> FALSE, alg |-> "", typ |-> ""]

HMAC(secret, message) == [b64 |-> TRUE, key |-> secret, message |-> message]

\* JSON payload of a token; json is FALSE for a segment that does not decode
Payload(iat, hasExp, exp) == [json |-> TRUE, iat |-> iat, hasExp |-> hasExp, exp |-> exp]
Garbage == [json |-> FALSE, iat |-> 0, hasExp |-> FALSE, exp |-> 0]

\* a signature segment that is not base64: atob throws on it
NotBase64 == [b64 |-> FALSE, key |-> "", message |-> <<JwtHeader, Garbage>>]

sign(payload, secret) ==
  [nseg |-> 3, header |-> JwtHeader, payload |-> payload,
   signature |-> HMAC(secret, <<JwtHeader, payload>>)]

NoToken == [nseg |-> 0, header |-> JwtHeader, payload |-> Garbage,
            signature |-> HMAC("", <<JwtHeader, Garbage>>)]

\* payload.exp && payload.exp < Math.floor(Date.now() / 1000)
Expired(payload, now) ==
  payload.hasExp /\ payload.exp # 0 /\ payload.exp < (now \div 1000)

\* a verify that trusts the payload without comparing the signature
verify_Unsigned(token, secret, now) ==
  IF token.nseg # 3 THEN FALSE
  ELSE IF ~Truthy(secret) THEN FALSE
  ELSE IF ~token.signature.b64 THEN FALSE
  ELSE IF ~token.payload.json THEN FALSE
  ELSE IF Expired(token.payload, now) THEN FALSE
  ELSE TRUE

\* verify(token, secret) with Date.now() = now; an unset secret makes importKey
\* throw, a signature segment that is not base64 makes base64UrlDecode throw;
\* the header segment is part of the signed message and is not decoded
verify(token, secret, now) ==
  IF token.nseg # 3 THEN FALSE
  ELSE IF ~Truthy(secret) THEN FALSE
  ELSE IF ~token.signature.b64 THEN FALSE
  ELSE IF token.signature # HMAC(String(secret), <<token.header, token.payload>>) THEN FALSE
  ELSE IF ~token.payload.json THEN FALSE
  ELSE IF Expired(token.payload, now) THEN FALSE
  ELSE TRUE

\* Authorization header: present, its first seven characters, the rest
NoHeader == [present |-> FALSE, scheme |-> "", token |-> NoToken]
Header(scheme, token) == [present |-> TRUE, scheme |-> scheme, token |-> token]

verifyAuth(authHeader, e, now) ==
  IF ~authHeader.present \/ authHeader.scheme # "Bearer " THEN FALSE
  ELSE verify(authHeader.token, e.JWT_SECRET, now)

(***************************************************************************)
(* Rate limiter (_shared.js).  The Map is a function from the tracked keys *)
(* to their entries.                                                       *)
(***************************************************************************)
CleanupSize == 10000
AuthMaxRequests == 5
AuthWindowMs == 60000
TokenLifetime == 60 * 60

\* request.headers.get('CF-Connecting-IP') || 'unknown'
ClientKey(ip) == IF ip = "" THEN "unknown" ELSE ip

\* a limiter that already resets the window at now = resetAt
WindowExpired_AtReset(now, entry) == now >= entry.resetAt

\* now > entry.resetAt: the window of the entry is over
WindowExpired(now, entry) == now > entry.resetAt

\* a limiter that denies the last request of the quota
OverLimit_Early(count, maxRequests) == count >= maxRequests

\* a limiter that lets one request more through
OverLimit_Late(count, maxRequests) == count > maxRequests + 1

\* entry.count > maxRequests after the increment
OverLimit(count, maxRequests) == count > maxRequests

\* The Map: the entries of the clients that call in the model by key
\* (named), and the entries of the other tracked clients as groups of keys
\* with equal entries (others)
EmptyMap == [named |-> <<>>, others |-> <<>>]

RECURSIVE KeysOf(_)
KeysOf(groups) == IF groups = <<>> THEN 0 ELSE Head(groups).keys + KeysOf(Tail(groups))

\* rateLimitStore.size
MapSize(rls) == Cardinality(DOMAIN rls.named) + KeysOf(rls.others)

\* the loop that deletes every entry with now > v.resetAt
Purge(rls, now) ==
  [named |-> [k \in {x \in DOMAIN rls.named : ~(now > rls.named[x].resetAt)} |->
                rls.named[k]],
   others |-> SelectSeq(rls.others, LAMBDA g : ~(now > g.entry.resetAt))]

\* a limiter that counts a call against every tracked client
limitWithoutCleanup_CountsAll(rls, ip, now, maxRequests, windowMs) ==
  LET key == ClientKey(ip)
      map == rls.named
  IN  IF key \notin DOMAIN map \/ WindowExpired(now, map[key])
      THEN LET entry == [count |-> 1, resetAt |-> now + windowMs]
           IN  [rls |-> [rls EXCEPT !.named = [k \in DOMAIN map \cup {key} |->
                                                 IF k = key THEN entry ELSE map[k]]],
                allowed |-> TRUE, remaining |-> maxRequests - 1,
                resetAt |-> entry.resetAt]
      ELSE LET entry == [count |-> map[key].count + 1, resetAt |-> map[key].resetAt]
           IN  [rls |-> [rls EXCEPT !.named = [k \in DOMAIN map |->
                                                 [map[k] EXCEPT !.count = @ + 1]]],
                allowed |-> ~OverLimit(entry.count, maxRequests),
                remaining |-> IF OverLimit(entry.count, maxRequests) THEN 0
                              ELSE maxRequests - entry.count,
                resetAt |-> entry.resetAt]

\* checkRateLimit from 'Get or create rate limit entry' on
limitWithoutCleanup(rls, ip, now, maxRequests, windowMs) ==
  LET key == ClientKey(ip)
      map == rls.named
  IN  IF key \notin DOMAIN map \/ WindowExpired(now, map[key])
      THEN LET entry == [count |-> 1, resetAt |-> now + windowMs]
           IN  [rls |-> [rls EXCEPT !.named = [k \in DOMAIN map \cup {key} |->
                                                 IF k = key THEN entry ELSE map[k]]],
                allowed |-> TRUE, remaining |-> maxRequests - 1,
                resetAt |-> entry.resetAt]
      ELSE LET entry == [count |-> map[key].count + 1, resetAt |-> map[key].resetAt]
           IN  [rls |-> [rls EXCEPT !.named[key] = entry],
                allowed |-> ~OverLimit(entry.count, maxRequests),
                remaining |-> IF OverLimit(entry.count, maxRequests) THEN 0
                              ELSE maxRequests - entry.count,
                resetAt |-> entry.resetAt]

\* a limiter whose cleanup drops every entry
checkRateLimit_SweepAll(rls, ip, now, maxRequests, windowMs) ==
  limitWithoutCleanup(IF MapSize(rls) > CleanupSize THEN EmptyMap ELSE rls,
                      ip, now, maxRequests, windowMs)

\* a limiter whose denied calls start the window anew
checkRateLimit_Extending(rls, ip, now, maxRequests, windowMs) ==
  LET key == ClientKey(ip)
      map == rls.named
  IN  IF key \notin DOMAIN map \/ WindowExpired(now, map[key])
      THEN LET entry == [count |-> 1, resetAt |-> now + windowMs]
           IN  [rls |-> [rls EXCEPT !.named = [k \in DOMAIN map \cup {key} |->
                                                 IF k = key THEN entry ELSE map[k]]],
                allowed |-> TRUE, remaining |-> maxRequests - 1,
                resetAt |-> entry.resetAt]
      ELSE LET over == OverLimit(map[key].count + 1, maxRequests)
               entry == [count |-> map[key].count + 1,
                         resetAt |-> IF over THEN now + windowMs ELSE map[key].resetAt]
           IN  [rls |-> [rls EXCEPT !.named[key] = entry],
                allowed |-> ~over,
                remaining |-> IF over THEN 0 ELSE maxRequests - entry.count,
                resetAt |-> entry.resetAt]

\* checkRateLimit: the cleanup when more than 10000 keys are tracked, then
\* the entry of the key
checkRateLimit(rls, ip, now, maxRequests, windowMs) ==
  limitWithoutCleanup(IF MapSize(rls) > CleanupSize THEN Purge(rls, now) ELSE rls,
                      ip, now, maxRequests, windowMs)

(***************************************************************************)
(* The document and the records of its two collections.                    *)
(***************************************************************************)
Restaurant(id, name, foodTypes, serviceTypes, profiles, dietaryRestrictions) ==
  [id |-> id, name |-> name, foodTypes |-> foodTypes, serviceTypes |-> serviceTypes,
   profiles |-> profiles, dietaryRestrictions |-> dietaryRestrictions,
   menuLink |-> Undef]

NoBody == Restaurant(Undef, Undef, Undef, Undef, Undef, Undef)

\* a profile is stored as the JSON object it came as: id, name, and whatever
\* other fields the payload of its create carried (none here)
Profile(id, name) == [NoBody EXCEPT !.id = id, !.name = name]

\* hasP, hasR: the document has a profiles, a restaurants collection
Doc(hasP, profiles, hasR, restaurants) ==
  [hasP |-> hasP, profiles |-> profiles, hasR |-> hasR, restaurants |-> restaurants]

EmptyDoc == Doc(FALSE, <<>>, FALSE, <<>>)

AllProfile == Profile(Str("all"), Str("All Restaurants"))

\* the record a response carries
NoRec == [kind |-> "none", r |-> NoBody, p |-> Profile(Undef, Undef)]
RestaurantRec(x) == [kind |-> "restaurant", r |-> x, p |-> Profile(Undef, Undef)]
ProfileRec(x) == [kind |-> "profile", r |-> NoBody, p |-> x]

(***************************************************************************)
(* The handlers.  Pre is the code of a handler up to its fetchFromGitHub,  *)
(* Post the code between the fetch and updateGitHub.  A result is either a *)
(* response or the next store call.                                        *)
(***************************************************************************)
Respond(status) == [kind |-> "respond", status |-> status, data |-> EmptyDoc, rec |-> NoRec]
CallFetch == [kind |-> "fetch", status |-> 0, data |-> EmptyDoc, rec |-> NoRec]
CallUpdate(data, rec) == [kind |-> "update", status |-> 0, data |-> data, rec |-> rec]

\* restaurants.js onRequestPost
RestaurantsPostPre(inp, e) ==
  IF ~verifyAuth(inp.hdr, e, inp.now) THEN Respond(401)
  ELSE IF ~inp.json THEN Respond(500)
  ELSE IF validateThrows(inp.body) THEN Respond(500)
  ELSE IF ~validateRestaurantData(inp.body).valid THEN Respond(400)
  ELSE CallFetch

RestaurantsPostPost(inp, data, uuid) ==
  LET restaurants == IF data.hasR THEN data.restaurants ELSE <<>>
      newRestaurant == IF ~Truthy(inp.body.id) THEN [inp.body EXCEPT !.id = Str(uuid)]
                       ELSE inp.body
  IN  CallUpdate([data EXCEPT !.hasR = TRUE,
                              !.restaurants = Append(restaurants, newRestaurant)],
                 RestaurantRec(newRestaurant))

\* an update that stores the payload without validating it
RestaurantsPutPre_NoValidation(inp, e) ==
  IF ~verifyAuth(inp.hdr, e, inp.now) THEN Respond(401)
  ELSE IF ~inp.json THEN Respond(500)
  ELSE IF ~Truthy(inp.body.id) THEN Respond(400)
  ELSE CallFetch

\* restaurants.js onRequestPut
RestaurantsPutPre(inp, e) ==
  IF ~verifyAuth(inp.hdr, e, inp.now) THEN Respond(401)
  ELSE IF ~inp.json THEN Respond(500)
  ELSE IF validateThrows(inp.body) THEN Respond(500)
  ELSE IF ~validateRestaurantData(inp.body).valid THEN Respond(400)
  ELSE IF ~Truthy(inp.body.id) THEN Respond(400)
  ELSE CallFetch

RestaurantsPutPost(inp, data) ==
  IF ~data.hasR THEN Respond(500)
  ELSE LET index == FindIndex([i \in 1..Len(data.restaurants) |-> StrictEq(data.restaurants[i].id, inp.body.id)])
       IN  IF index = 0 THEN Respond(404)
           ELSE CallUpdate([data EXCEPT !.restaurants[index] = inp.body],
                           RestaurantRec(inp.body))

\* restaurants/[id].js onRequestDelete
RestaurantsDeletePre(inp, e) ==
  IF ~verifyAuth(inp.hdr, e, inp.now) THEN Respond(401)
  ELSE CallFetch

\* a delete that removes every record with the id
RestaurantsDeletePost_All(inp, data) ==
  IF ~data.hasR THEN Respond(500)
  ELSE LET index == FindIndex([i \in 1..Len(data.restaurants) |-> String(data.restaurants[i].id) = inp.param])
       IN  IF index = 0 THEN Respond(404)
           ELSE CallUpdate([data EXCEPT !.restaurants =
                              SelectSeq(data.restaurants,
                                        LAMBDA x : String(x.id) # inp.param)],
                           RestaurantRec(data.restaurants[index]))

RestaurantsDeletePost(inp, data) ==
  IF ~data.hasR THEN Respond(500)
  ELSE LET index == FindIndex([i \in 1..Len(data.restaurants) |-> String(data.restaurants[i].id) = inp.param])
       IN  IF index = 0 THEN Respond(404)
           ELSE CallUpdate([data EXCEPT !.restaurants = Splice(data.restaurants, index)],
                           RestaurantRec(data.restaurants[index]))

reservedIds == {Str("all")}

\* profiles.js onRequestPost
ProfilesPostPre(inp, e) ==
  IF ~verifyAuth(inp.hdr, e, inp.now) THEN Respond(401)
  ELSE IF ~inp.json THEN Respond(500)
  ELSE IF ~Truthy(inp.body.id) \/ ~Truthy(inp.body.name) THEN Respond(400)
  ELSE IF ~validateProfileId(inp.body.id) THEN Respond(400)
  ELSE IF inp.body.id \in reservedIds THEN Respond(400)
  ELSE CallFetch

\* a create that does not look for the id among the stored profiles
ProfilesPostPost_NoDupCheck(inp, data) ==
  LET profiles == IF data.hasP THEN data.profiles ELSE <<AllProfile>>
      newProfile == inp.body
  IN  CallUpdate([data EXCEPT !.hasP = TRUE, !.profiles = Append(profiles, newProfile)],
                 ProfileRec(newProfile))

ProfilesPostPost(inp, data) ==
  LET profiles == IF data.hasP THEN data.profiles ELSE <<AllProfile>>
      newProfile == inp.body
  IN  IF \E i \in 1..Len(profiles) : StrictEq(profiles[i].id, newProfile.id)
      THEN Respond(400)
      ELSE CallUpdate([data EXCEPT !.hasP = TRUE, !.profiles = Append(profiles, newProfile)],
                      ProfileRec(newProfile))

\* an update that does not protect the reserved profile
ProfilesPutPre_AllEditable(inp, e) ==
  IF ~verifyAuth(inp.hdr, e, inp.now) THEN Respond(401)
  ELSE IF ~inp.json THEN Respond(500)
  ELSE IF ~Truthy(inp.body.id) \/ ~Truthy(inp.body.name) THEN Respond(400)
  ELSE CallFetch

\* profiles.js onRequestPut
ProfilesPutPre(inp, e) ==
  IF ~verifyAuth(inp.hdr, e, inp.now) THEN Respond(401)
  ELSE IF ~inp.json THEN Respond(500)
  ELSE IF ~Truthy(inp.body.id) \/ ~Truthy(inp.body.name) THEN Respond(400)
  ELSE IF StrictEq(inp.body.id, Str("all")) THEN Respond(400)
  ELSE CallFetch

\* an update that moves the matched profile to the end
ProfilesPutPost_Moves(inp, data) ==
  IF ~data.hasP THEN Respond(500)
  ELSE LET index == FindIndex([i \in 1..Len(data.profiles) |-> StrictEq(data.profiles[i].id, inp.body.id)])
       IN  IF index = 0 THEN Respond(404)
           ELSE CallUpdate([data EXCEPT !.profiles =
                              Append(Splice(data.profiles, index),
                                     [data.profiles[index] EXCEPT !.name = inp.body.name])],
                           ProfileRec([data.profiles[index] EXCEPT !.name = inp.body.name]))

ProfilesPutPost(inp, data) ==
  IF ~data.hasP THEN Respond(500)
  ELSE LET index == FindIndex([i \in 1..Len(data.profiles) |-> StrictEq(data.profiles[i].id, inp.body.id)])
       IN  IF index = 0 THEN Respond(404)
           ELSE CallUpdate([data EXCEPT !.profiles[index].name = inp.body.name],
                           ProfileRec([data.profiles[index] EXCEPT !.name = inp.body.name]))

\* a profile delete without the cascade
CascadeRestaurant_None(restaurant, profileId) == restaurant

\* the cascade of the profile delete over one restaurant
CascadeRestaurant(restaurant, profileId) ==
  IF Truthy(restaurant.profiles) /\ IsArray(restaurant.profiles)
  THEN [restaurant EXCEPT !.profiles = Arr(Filter(restaurant.profiles.a, profileId))]
  ELSE restaurant

\* a delete that does not protect the reserved profile
ProfilesDeletePre_AllDeletable(inp, e) ==
  IF ~verifyAuth(inp.hdr, e, inp.now) THEN Respond(401)
  ELSE CallFetch

\* profiles/[id].js onRequestDelete
ProfilesDeletePre(inp, e) ==
  IF ~verifyAuth(inp.hdr, e, inp.now) THEN Respond(401)
  ELSE IF inp.param = "all" THEN Respond(400)
  ELSE CallFetch

ProfilesDeletePost(inp, data) ==
  IF ~data.hasP THEN Respond(404)
  ELSE LET index == FindIndex([i \in 1..Len(data.profiles) |-> StrictEq(data.profiles[i].id, Str(inp.param))])
       IN  IF index = 0 THEN Respond(404)
           ELSE CallUpdate(
                  [data EXCEPT
                     !.profiles = Splice(data.profiles, index),
                     !.restaurants =
                        IF data.hasR
                        THEN [i \in 1..Len(data.restaurants) |->
                                CascadeRestaurant(data.restaurants[i], inp.param)]
                        ELSE data.restaurants],
                  ProfileRec(data.profiles[index]))

\* a response that carries a document
RespondData(status, data) ==
  [kind |-> "respond", status |-> status, data |-> data, rec |-> NoRec]

\* restaurants.js onRequestGet: no verifyAuth, the whole document is returned
RestaurantsGetPre(inp, e) == CallFetch

RestaurantsGetPost(inp, data) == RespondData(200, data)

\* profiles.js onRequestGet: { profiles: data.profiles || [] }
ProfilesGetPre(inp, e) == CallFetch

ProfilesGetPost(inp, data) ==
  RespondData(200, Doc(TRUE, IF data.hasP THEN data.profiles ELSE <<>>, FALSE, <<>>))

Pre(inp, e) ==
  CASE inp.op = "POST /restaurants"       -> RestaurantsPostPre(inp, e)
    [] inp.op = "PUT /restaurants"        -> RestaurantsPutPre(inp, e)
    [] inp.op = "DELETE /restaurants/:id" -> RestaurantsDeletePre(inp, e)
    [] inp.op = "POST /profiles"          -> ProfilesPostPre(inp, e)
    [] inp.op = "PUT /profiles"           -> ProfilesPutPre(inp, e)
    [] inp.op = "GET /restaurants"        -> RestaurantsGetPre(inp, e)
    [] inp.op = "GET /profiles"           -> ProfilesGetPre(inp, e)
    [] OTHER                              -> ProfilesDeletePre(inp, e)

Post(inp, data, uuid) ==
  CASE inp.op = "POST /restaurants"       -> RestaurantsPostPost(inp, data, uuid)
    [] inp.op = "PUT /restaurants"        -> RestaurantsPutPost(inp, data)
    [] inp.op = "DELETE /restaurants/:id" -> RestaurantsDeletePost(inp, data)
    [] inp.op = "POST /profiles"          -> ProfilesPostPost(inp, data)
    [] inp.op = "PUT /profiles"           -> ProfilesPutPost(inp, data)
    [] inp.op = "GET /restaurants"        -> RestaurantsGetPost(inp, data)
    [] inp.op = "GET /profiles"           -> ProfilesGetPost(inp, data)
    [] OTHER                              -> ProfilesDeletePost(inp, data)

\* the Error a failed store call throws: its message, and the status and the
\* body of the store's response that the message quotes
NoError == [message |-> "", status |-> 0, body |-> ""]
FetchError(response) ==
  [message |-> "GitHub API error", status |-> response.status, body |-> ""]
UpdateError(response) ==
  [message |-> "GitHub update failed", status |-> response.status, body |-> response.body]

\* the text in front of error.message in the catch of each handler
FailedPrefix(op) ==
  CASE op = "POST /restaurants"       -> "Failed to add restaurant"
    [] op = "PUT /restaurants"        -> "Failed to update restaurant"
    [] op = "DELETE /restaurants/:id" -> "Failed to delete restaurant"
    [] op = "POST /profiles"          -> "Failed to add profile"
    [] op = "PUT /profiles"           -> "Failed to update profile"
    [] op = "DELETE /profiles/:id"    -> "Failed to delete profile"
    [] op = "GET /restaurants"        -> "Failed to fetch restaurants"
    [] OTHER                          -> "Failed to fetch profiles"


\* a catch that answers without the message of the error
Caught_Bare(op, error) ==
  [status |-> 500, error |-> [prefix |-> FailedPrefix(op), cause |-> NoError]]

\* the catch of a handler: errorResponse(`Failed to ...: ${error.message}`, 500);
\* the GET handlers leave error.message out
Caught(op, error) ==
  [status |-> 500,
   error |-> [prefix |-> FailedPrefix(op),
              cause |-> IF op \in {"GET /restaurants", "GET /profiles"} THEN NoError
                        ELSE error]]

\* the error field of a response the model keeps no message for
NoMessage == [prefix |-> "", cause |-> NoError]

\* responses of the store to a call it does not serve
StoreUnavailable == [status |-> 503, body |-> "Service unavailable"]
StoreConflict == [status |-> 409, body |-> "does not match"]

(***************************************************************************)
(* Deployment, stored documents and request inputs of the model.           *)
(***************************************************************************)
Secret == "s3cret"
Configured == [JWT_SECRET |-> Str(Secret), ADMIN_PASSWORD |-> Str("pw")]

R1 == Restaurant(Str("1"), Str("Taco"), Arr(<<"mexican">>), Arr(<<"takeout">>),
                 Arr(<<"p1", "p2">>), Undef)
R2 == Restaurant(Num("2"), Str("Soup"), Arr(<<"thai">>), Arr(<<"dine-in", "delivery">>),
                 Arr(<<"p2">>), Undef)
R3 == Restaurant(Str("3"), Str("Taco"), Arr(<<"home">>), Arr(<<"at-home">>), Undef, Undef)

SeedDoc == Doc(TRUE, <<AllProfile, Profile(Str("p1"), Str("Lunch")),
                       Profile(Str("p2"), Str("Work"))>>,
               TRUE, <<R1, R2, R3>>)

InitDocs == {EmptyDoc, SeedDoc}

\* the time of the verifyAuth calls of Spec, milliseconds
SpecNow == 5000 * 1000

GoodToken    == sign(Payload(4000, TRUE, 4000 + 3600), Secret)
EdgeToken    == sign(Payload(1400, TRUE, 5000), Secret)
ExpiredToken == sign(Payload(1399, TRUE, 4999), Secret)
NoExpToken   == sign(Payload(1000, FALSE, 0), Secret)
ForgedToken  == sign(Payload(4000, TRUE, 4000 + 3600), "guess")
AlteredToken == [GoodToken EXCEPT !.payload = Payload(4000, TRUE, 999999)]
ShortToken   == [GoodToken EXCEPT !.nseg = 2]
LongToken    == [GoodToken EXCEPT !.nseg = 4]
GarbageToken == sign(Garbage, Secret)
ZeroExpToken == sign(Payload(1000, TRUE, 0), Secret)
\* a message with an undecodable first segment, signed with the secret
BadHeaderToken ==
  [GoodToken EXCEPT !.header = GarbageHeader,
                    !.signature = HMAC(Secret, <<GarbageHeader, GoodToken.payload>>)]
BadSignatureToken == [GoodToken EXCEPT !.signature = NotBase64]

Good == Header("Bearer ", GoodToken)

Headers ==
  {NoHeader, Good, Header("Basic ", GoodToken), Header("bearer ", GoodToken),
   Header("Bearer ", EdgeToken), Header("Bearer ", ExpiredToken),
   Header("Bearer ", NoExpToken), Header("Bearer ", ForgedToken),
   Header("Bearer ", AlteredToken), Header("Bearer ", ShortToken),
   Header("Bearer ", LongToken), Header("Bearer ", GarbageToken),
   Header("Bearer ", ZeroExpToken), Header("Bearer ", BadHeaderToken),
   Header("Bearer ", BadSignatureToken)}

NewR  == Restaurant(Undef, Str("Soup"), Arr(<<"thai">>), Arr(<<"takeout">>),
                    Arr(<<"p1">>), Undef)
DupR  == Restaurant(Str("1"), Str("Soup"), Arr(<<"thai">>), Arr(<<"takeout">>),
                    Arr(<<>>), Undef)
EditR == Restaurant(Str("1"), Str("Soup"), Arr(<<"thai">>), Arr(<<"delivery">>),
                    Arr(<<"p2">>), Arr(<<"vegan">>))
Str2R == Restaurant(Str("2"), Str("Taco"), Arr(<<"thai">>), Arr(<<"dine-in">>),
                    Undef, Undef)

RestaurantBodies ==
  {NewR, DupR, EditR, Str2R,
   [NewR EXCEPT !.name = Str(" ")],
   [EditR EXCEPT !.name = Undef],
   [EditR EXCEPT !.foodTypes = Arr(<<>>)],
   [NewR EXCEPT !.foodTypes = Str("thai")],
   [EditR EXCEPT !.serviceTypes = Arr(<<>>)],
   [NewR EXCEPT !.serviceTypes = Arr(<<"takeout", "drive-in">>)],
   [EditR EXCEPT !.profiles = Str("p1")],
   [NewR EXCEPT !.dietaryRestrictions = Str("vegan")],
   [EditR EXCEPT !.name = Num("7")],
   [NewR EXCEPT !.name = Num("7")],
   [EditR EXCEPT !.id = Num("0")],
   [NewR EXCEPT !.menuLink = Str("menu")],
   [EditR EXCEPT !.menuLink = Str("http://")],
   [NewR EXCEPT !.menuLink = Str("http://a.io/m")],
   [EditR EXCEPT !.menuLink = Str("mailto:x")],
   [EditR EXCEPT !.menuLink = Str("")],
   [NewR EXCEPT !.serviceTypes = Str("takeout")],
   [NewR EXCEPT !.serviceTypes = Arr(<<"drive-in", "x">>)],
   [NewR EXCEPT !.name = Str(" "), !.foodTypes = Arr(<<>>),
                !.serviceTypes = Arr(<<"drive-in">>), !.profiles = Str("p1"),
                !.dietaryRestrictions = Str("vegan")]}

ProfileBody(id, name) == [NoBody EXCEPT !.id = id, !.name = name]

\* a profile payload that carries more than id and name
RichProfileBody ==
  [ProfileBody(Str("p2"), Str("Soup")) EXCEPT !.foodTypes = Arr(<<"thai">>),
                                              !.profiles = Arr(<<"p1">>)]

ProfileBodies ==
  {RichProfileBody,
   ProfileBody(Str("p3"), Str("Work")), ProfileBody(Str("p1"), Str("Work")),
   ProfileBody(Str("p9"), Str("Lunch")), ProfileBody(Str("all"), Str("Work")),
   ProfileBody(Str("Bad_Id"), Str("Work")), ProfileBody(Undef, Str("Work")),
   ProfileBody(Str(""), Str("Work")), ProfileBody(Str("p3"), Undef),
   ProfileBody(Str("p1"), Str("")), ProfileBody(Str("all"), Undef)}

Params == {"1", "2", "9", "p1", "p2", "p9", "all"}

Input(op, hdr, json, body, param) ==
  [op |-> op, hdr |-> hdr, now |-> SpecNow, json |-> json, body |-> body, param |-> param]

NoInput == Input("", NoHeader, FALSE, NoBody, "")

\* the requests of Spec: authenticated writes that race on the document
WriteInputs ==
  {Input("POST /restaurants", Good, TRUE, NewR, ""),
   Input("PUT /restaurants", Good, TRUE, EditR, ""),
   Input("POST /profiles", Good, TRUE, ProfileBody(Str("p3"), Str("Work")), ""),
   Input("POST /profiles", Good, TRUE, ProfileBody(Str("p1"), Str("Work")), ""),
   Input("POST /profiles", Good, TRUE, RichProfileBody, ""),
   Input("PUT /profiles", Good, TRUE, ProfileBody(Str("p1"), Str("Taco")), ""),
   Input("POST /profiles", Good, TRUE, ProfileBody(Str("all"), Str("Work")), ""),
   Input("PUT /profiles", Good, TRUE, ProfileBody(Str("all"), Str("Work")), "")}
  \cup {Input("DELETE /restaurants/:id", Good, TRUE, NoBody, x) : x \in {"1", "2"}}
  \cup {Input("DELETE /profiles/:id", Good, TRUE, NoBody, x) :
          x \in {"p1", "p2", "p9", "all"}}

\* the requests of SpecSeq: authenticated requests, one after the other
SeqInputs ==
  {Input(op, Good, TRUE, b, "") :
     op \in {"POST /restaurants", "PUT /restaurants"},
     b \in {NewR, DupR, EditR, Str2R,
            [NewR EXCEPT !.name = Str(" ")],
            [EditR EXCEPT !.name = Num("7")],
            [EditR EXCEPT !.foodTypes = Arr(<<>>)],
            [NewR EXCEPT !.serviceTypes = Arr(<<"takeout", "drive-in">>)]}}
  \cup {Input(op, Good, TRUE, b, "") :
     op \in {"POST /profiles", "PUT /profiles"},
     b \in {ProfileBody(Str("p3"), Str("Work")), ProfileBody(Str("p1"), Str("Taco")),
            ProfileBody(Str("all"), Str("Work")), RichProfileBody}}
  \cup {Input("DELETE /restaurants/:id", Good, TRUE, NoBody, x) : x \in {"1", "2", "9"}}
  \cup {Input("DELETE /profiles/:id", Good, TRUE, NoBody, x) : x \in {"p1", "p9", "all"}}
  \cup {Input("GET /restaurants", NoHeader, TRUE, NoBody, "")}

\* the requests of SpecGate: every header, body and path parameter on every endpoint
GateInputs ==
  {Input(op, h, j, b, "") :
     op \in {"POST /restaurants", "PUT /restaurants"}, h \in Headers,
     j \in BOOLEAN, b \in RestaurantBodies}
  \cup {Input(op, h, j, b, "") :
     op \in {"POST /profiles", "PUT /profiles"}, h \in Headers,
     j \in BOOLEAN, b \in ProfileBodies}
  \cup {Input(op, h, TRUE, NoBody, x) :
     op \in {"DELETE /restaurants/:id", "DELETE /profiles/:id"}, h \in Headers,
     x \in Params}
  \cup {Input(op, h, TRUE, NoBody, "") :
     op \in {"GET /restaurants", "GET /profiles"}, h \in {NoHeader, Good}}

(***************************************************************************)
(* The write requests and the store.                                       *)
(***************************************************************************)
Idle == [pc |-> "idle", inp |-> NoInput, data |-> EmptyDoc, sha |-> 0, uuid |-> "",
         rec |-> NoRec, status |-> 0, error |-> NoMessage, fetches |-> 0, writes |-> 0,
         wres |-> "none"]

\* a store that takes every update, whatever SHA it carries
CasAccepts_Always(storeSha, sha) == TRUE

\* a store that also takes an update carrying an older SHA
CasAccepts_Older(storeSha, sha) == sha <= storeSha

\* the contents API accepts an update only if it carries the current file SHA
CasAccepts(storeSha, sha) == storeSha = sha

\* a handler starts: everything up to the first store call
BeginWith(r, inputs) ==
  /\ reqs[r].pc = "idle"
  /\ \E inp \in inputs :
       LET res == Pre(inp, env)
       IN  reqs' = [reqs EXCEPT ![r] =
                      IF res.kind = "respond"
                      THEN [@ EXCEPT !.pc = "done", !.inp = inp, !.status = res.status]
                      ELSE [@ EXCEPT !.pc = "fetching", !.inp = inp, !.fetches = @ + 1]]
  /\ UNCHANGED <<env, store, commits, authVars>>

Begin(r) == BeginWith(r, WriteInputs)

GateBegin == BeginWith(1, GateInputs)

\* fetchFromGitHub returns the document and its SHA; the handler runs up to
\* updateGitHub, uuid is the value of its generateUUID()
FetchOkWith(r, uuid) ==
  /\ reqs[r].pc = "fetching"
  /\ LET res == Post(reqs[r].inp, store.doc, uuid)
     IN  reqs' = [reqs EXCEPT ![r] =
                      IF res.kind = "respond"
                      THEN [@ EXCEPT !.pc = "done", !.sha = store.sha,
                                     !.status = res.status, !.data = res.data]
                      ELSE [@ EXCEPT !.pc = "writing", !.sha = store.sha,
                                     !.data = res.data, !.rec = res.rec,
                                     !.uuid = uuid, !.writes = @ + 1]]
  /\ UNCHANGED <<env, store, commits, authVars>>

\* the values generateUUID() can return to the handler of inp: it is called
\* by POST /restaurants for a payload without an id, and by no other handler
UuidsFor(inp) ==
  IF inp.op = "POST /restaurants" /\ ~Truthy(inp.body.id)
  THEN {Generated[draws] : draws \in RandomDraws}
  ELSE {""}

FetchOk(r) == \E uuid \in UuidsFor(reqs[r].inp) : FetchOkWith(r, uuid)

\* a handler whose failed fetch is not caught: the request gets no response
FetchFail_Hang(r) ==
  /\ reqs[r].pc = "fetching"
  /\ reqs' = [reqs EXCEPT ![r] = [@ EXCEPT !.pc = "thrown"]]
  /\ UNCHANGED <<env, store, commits, authVars>>

\* fetchFromGitHub throws on a response that is not ok
FetchFail(r) ==
  /\ reqs[r].pc = "fetching"
  /\ LET res == Caught(reqs[r].inp.op, FetchError(StoreUnavailable))
     IN  reqs' = [reqs EXCEPT ![r] = [@ EXCEPT !.pc = "done", !.status = res.status,
                                               !.error = res.error]]
  /\ UNCHANGED <<env, store, commits, authVars>>

\* updateGitHub: the store accepts the update and assigns a new SHA
WriteOk(r) ==
  /\ reqs[r].pc = "writing"
  /\ CasAccepts(store.sha, reqs[r].sha)
  /\ store' = [doc |-> reqs[r].data, sha |-> store.sha + 1]
  /\ commits' = Append(commits, [req |-> r, inp |-> reqs[r].inp, prev |-> store.doc,
                                 prevSha |-> store.sha, doc |-> reqs[r].data,
                                 sha |-> store.sha + 1])
  /\ reqs' = [reqs EXCEPT ![r] = [@ EXCEPT !.pc = "done", !.status = 200, !.wres = "ok"]]
  /\ UNCHANGED <<env, authVars>>

\* a handler that fetches again after a rejected write
WriteConflict_Retry(r) ==
  /\ reqs[r].pc = "writing"
  /\ ~CasAccepts(store.sha, reqs[r].sha)
  /\ reqs' = [reqs EXCEPT ![r] = [@ EXCEPT !.pc = "fetching", !.fetches = @ + 1]]
  /\ UNCHANGED <<env, store, commits, authVars>>

\* updateGitHub: the store rejects the update because the SHA is stale
WriteConflict(r) ==
  /\ reqs[r].pc = "writing"
  /\ ~CasAccepts(store.sha, reqs[r].sha)
  /\ LET res == Caught(reqs[r].inp.op, UpdateError(StoreConflict))
     IN  reqs' = [reqs EXCEPT ![r] =
                    [@ EXCEPT !.pc = "done", !.status = res.status, !.error = res.error,
                              !.wres = "conflict", !.rec = NoRec]]
  /\ UNCHANGED <<env, store, commits, authVars>>

\* a profile delete that stores the removal of the profile in one update and
\* the cascade in a second one, of which the second fails
WriteFail_CascadeApart(r) ==
  /\ reqs[r].pc = "writing"
  /\ IF reqs[r].inp.op = "DELETE /profiles/:id" /\ CasAccepts(store.sha, reqs[r].sha)
     THEN LET removal == [reqs[r].data EXCEPT !.restaurants = store.doc.restaurants]
          IN  /\ store' = [doc |-> removal, sha |-> store.sha + 1]
              /\ commits' = Append(commits, [req |-> r, inp |-> reqs[r].inp,
                                             prev |-> store.doc, prevSha |-> store.sha,
                                             doc |-> removal, sha |-> store.sha + 1])
     ELSE UNCHANGED <<store, commits>>
  /\ LET res == Caught(reqs[r].inp.op, UpdateError(StoreUnavailable))
     IN  reqs' = [reqs EXCEPT ![r] =
                    [@ EXCEPT !.pc = "done", !.status = res.status, !.error = res.error,
                              !.wres = "error", !.rec = NoRec]]
  /\ UNCHANGED <<env, authVars>>

\* a handler that answers success although its write has failed
WriteFail_Swallowed(r) ==
  /\ reqs[r].pc = "writing"
  /\ reqs' = [reqs EXCEPT ![r] = [@ EXCEPT !.pc = "done", !.status = 200, !.wres = "error"]]
  /\ UNCHANGED <<env, store, commits, authVars>>

\* updateGitHub: the store answers with another error
WriteFail(r) ==
  /\ reqs[r].pc = "writing"
  /\ LET res == Caught(reqs[r].inp.op, UpdateError(StoreUnavailable))
     IN  reqs' = [reqs EXCEPT ![r] =
                    [@ EXCEPT !.pc = "done", !.status = res.status, !.error = res.error,
                              !.wres = "error", !.rec = NoRec]]
  /\ UNCHANGED <<env, store, commits, authVars>>

\* the handler has returned its response; the next request arrives
Finish(r) ==
  /\ reqs[r].pc = "done"
  /\ reqs' = [reqs EXCEPT ![r] = Idle]
  /\ UNCHANGED <<env, store, commits, authVars>>

(***************************************************************************)
(* /api/auth (auth.js) and the clock.                                      *)
(***************************************************************************)
NoSecret == [Configured EXCEPT !.JWT_SECRET = Undef]
NoPassword == [Configured EXCEPT !.ADMIN_PASSWORD = Undef]
Envs == {Configured, NoSecret, NoPassword}

ClientIps == {"10.0.0.1", ""}
ClientKeys == {ClientKey(ip) : ip \in ClientIps}

\* request bodies of /api/auth: json is FALSE for a body request.json() rejects
AuthBody(json, password) == [json |-> json, password |-> password]
AuthBodies == {AuthBody(FALSE, Undef), AuthBody(TRUE, Undef),
               AuthBody(TRUE, Str("pw")), AuthBody(TRUE, Str("wrong"))}

\* the clock advances by these steps between requests, and by one of Skews
\* between two Date.now() calls of one request
RateTicks == {1}
AuthTicks == {1, 999, 3600000}
Skews == {0, 1}

AuthResponse(status, authenticated, token, error, retryAfter) ==
  [status |-> status, authenticated |-> authenticated, token |-> token,
   error |-> error, retryAfter |-> retryAfter]

\* a handler that accepts every password
AuthHandler_AnyPassword(body, e, t1, t2) ==
  IF ~body.json THEN AuthResponse(400, FALSE, NoToken, "Invalid request", FALSE)
  ELSE IF ~Truthy(e.JWT_SECRET)
  THEN AuthResponse(500, FALSE, NoToken,
                    "Server configuration error: JWT_SECRET not set", FALSE)
  ELSE AuthResponse(200, TRUE,
                    sign(Payload(t1 \div 1000, TRUE, (t2 \div 1000) + TokenLifetime),
                         String(e.JWT_SECRET)),
                    "", FALSE)

\* a handler that compares the password before it looks at the secret
AuthHandler_PasswordFirst(body, e, t1, t2) ==
  IF ~body.json THEN AuthResponse(400, FALSE, NoToken, "Invalid request", FALSE)
  ELSE IF StrictEq(body.password, e.ADMIN_PASSWORD)
  THEN AuthResponse(200, TRUE,
                    sign(Payload(t1 \div 1000, TRUE, (t2 \div 1000) + TokenLifetime),
                         String(e.JWT_SECRET)),
                    "", FALSE)
  ELSE IF ~Truthy(e.JWT_SECRET)
  THEN AuthResponse(500, FALSE, NoToken,
                    "Server configuration error: JWT_SECRET not set", FALSE)
  ELSE AuthResponse(401, FALSE, NoToken, "Invalid password", FALSE)

\* auth.js onRequestPost behind the rate limiter; t1 is Date.now() of iat, t2 of exp
AuthHandler(body, e, t1, t2) ==
  IF ~body.json THEN AuthResponse(400, FALSE, NoToken, "Invalid request", FALSE)
  ELSE IF ~Truthy(e.JWT_SECRET)
  THEN AuthResponse(500, FALSE, NoToken,
                    "Server configuration error: JWT_SECRET not set", FALSE)
  ELSE IF StrictEq(body.password, e.ADMIN_PASSWORD)
  THEN AuthResponse(200, TRUE,
                    sign(Payload(t1 \div 1000, TRUE, (t2 \div 1000) + TokenLifetime),
                         String(e.JWT_SECRET)),
                    "", FALSE)
  ELSE AuthResponse(401, FALSE, NoToken, "Invalid password", FALSE)

TooMany ==
  AuthResponse(429, FALSE, NoToken,
               "Too many authentication attempts. Please try again later.", TRUE)

NoEntry == [count |-> 0, resetAt |-> 0]
EntryOf(rls, key) == IF key \in DOMAIN rls.named THEN rls.named[key] ELSE NoEntry

\* the answer to a call: the call's number among the calls made, key and time
\* of the call, its position n in the window of the key opened at opened, the
\* body the handler read (AuthBody(FALSE, Undef) when it read none), and the
\* response
Answer(call, body, response) ==
  [serial |-> call.serial, key |-> call.key, body |-> body, at |-> call.at, n |-> call.n,
   opened |-> call.opened, response |-> response]

\* onRequestPost of auth.js up to its first await: checkRateLimit, then the
\* 429 response, or request.json() and the return to the event loop; the
\* body is not looked at before that
AuthBegin(ip) ==
  /\ nCalls < MaxCalls
  /\ Len(pending) < MaxInFlight
  /\ LET key == ClientKey(ip)
         rateCheck == checkRateLimit(rateLimitStore, ip, clock, AuthMaxRequests,
                                     AuthWindowMs)
         plain == limitWithoutCleanup(uncleaned, ip, clock, AuthMaxRequests,
                                      AuthWindowMs)
         opens == window[key].n = 0 \/ clock > window[key].opened + AuthWindowMs
         win == IF opens THEN [opened |-> clock, n |-> 1]
                ELSE [window[key] EXCEPT !.n = @ + 1]
         call == [serial |-> nCalls + 1, key |-> key, at |-> clock, n |-> win.n,
                  opened |-> win.opened, pc |-> "json", body |-> AuthBody(FALSE, Undef),
                  token |-> NoToken]
     IN  /\ rateLimitStore' = rateCheck.rls
         /\ uncleaned' = plain.rls
         /\ lastCheck' = [key |-> key, ip |-> ip, now |-> clock,
                          had |-> key \in DOMAIN rateLimitStore.named,
                          before |-> EntryOf(rateLimitStore, key),
                          after |-> EntryOf(rateCheck.rls, key),
                          allowed |-> rateCheck.allowed,
                          remaining |-> rateCheck.remaining,
                          resetAt |-> rateCheck.resetAt,
                          size |-> MapSize(rateLimitStore),
                          plain |-> [allowed |-> plain.allowed,
                                     remaining |-> plain.remaining,
                                     resetAt |-> plain.resetAt]]
         /\ window' = [window EXCEPT ![key] = win]
         /\ IF ~rateCheck.allowed
            THEN /\ lastAuth' = Answer(call, AuthBody(FALSE, Undef), TooMany)
                 /\ UNCHANGED <<pending, passes>>
            ELSE /\ pending' = Append(pending, call)
                 /\ passes' = [passes EXCEPT ![key] =
                                 IF Len(@) > AuthMaxRequests THEN Append(Tail(@), clock)
                                 ELSE Append(@, clock)]
                 /\ UNCHANGED lastAuth
  /\ nCalls' = nCalls + 1
  /\ UNCHANGED <<env, storeVars, clock, issued, lastVerify, nTicks>>

\* request.json() of the i-th waiting call has settled with body: the handler
\* runs on to its response, or to jwt.sign with a payload whose iat and exp
\* are read from Date.now() one after the other, d milliseconds apart
AuthParsed(i, body, d) ==
  /\ i \in 1..Len(pending)
  /\ pending[i].pc = "json"
  /\ LET response == AuthHandler(body, env, clock, clock + d)
     IN  IF response.status = 200
         THEN /\ pending' = [pending EXCEPT ![i].pc = "sign", ![i].body = body,
                                            ![i].token = response.token]
              /\ clock' = clock + d
              /\ UNCHANGED lastAuth
         ELSE /\ pending' = Splice(pending, i)
              /\ lastAuth' = Answer(pending[i], body, response)
              /\ UNCHANGED clock
  /\ UNCHANGED <<env, storeVars, rateLimitStore, uncleaned, issued, passes, lastCheck,
                 lastVerify, window, nCalls, nTicks>>

\* jwt.sign of the i-th waiting call has settled: the token is returned
AuthSigned(i) ==
  /\ i \in 1..Len(pending)
  /\ pending[i].pc = "sign"
  /\ pending' = Splice(pending, i)
  /\ lastAuth' = Answer(pending[i], pending[i].body,
                        AuthResponse(200, TRUE, pending[i].token, "", FALSE))
  /\ issued' = issued \cup {pending[i].token}
  /\ UNCHANGED <<env, storeVars, clock, rateLimitStore, uncleaned, passes, lastCheck,
                 lastVerify, window, nCalls, nTicks>>

\* time passes
Tick(d) ==
  /\ nTicks < MaxTicks
  /\ clock' = clock + d
  /\ nTicks' = nTicks + 1
  /\ UNCHANGED <<env, storeVars, rateLimitStore, uncleaned, issued, passes, pending,
                 lastAuth, lastCheck, lastVerify, window, nCalls>>

\* a protected endpoint checks the Authorization header carrying an issued token
VerifyIssued ==
  /\ \E token \in issued :
       lastVerify' = [token |-> token, now |-> clock,
                      ok |-> verifyAuth(Header("Bearer ", token), env, clock)]
  /\ lastVerify' # lastVerify
  /\ UNCHANGED <<env, storeVars, clock, rateLimitStore, uncleaned, issued, passes, pending,
                 lastAuth, lastCheck, window, nCalls, nTicks>>

(***************************************************************************)
(* Specifications.                                                         *)
(***************************************************************************)
\* the module state when the Map holds rls at time now
RateIp == "10.0.0.1"

RECURSIVE MapAfter(_, _)
\* the Map after calls of client RateIp at the given times, from the Map rls
MapAfter(rls, times) ==
  IF times = <<>> THEN rls
  ELSE MapAfter(checkRateLimit(rls, RateIp, Head(times), AuthMaxRequests,
                               AuthWindowMs).rls,
                Tail(times))

\* the module state at time now when the Map holds rls, after calls of client
\* RateIp at the given times that all passed the limiter and were answered
\* without a token
InitAuthVarsWith(rls, now, times) ==
  /\ clock = now
  /\ rateLimitStore = rls
  /\ uncleaned = rls
  /\ issued = {}
  /\ passes = [k \in ClientKeys |-> IF k = ClientKey(RateIp) THEN times ELSE <<>>]
  /\ pending = <<>>
  /\ lastAuth = [serial |-> 0, key |-> "", body |-> AuthBody(FALSE, Undef), at |-> 0,
                 n |-> 0, opened |-> 0,
                 response |-> AuthResponse(0, FALSE, NoToken, "", FALSE)]
  /\ lastCheck = [key |-> "", ip |-> "", now |-> 0, had |-> FALSE, before |-> NoEntry,
                  after |-> NoEntry, allowed |-> FALSE, remaining |-> 0, resetAt |-> 0,
                  size |-> 0,
                  plain |-> [allowed |-> FALSE, remaining |-> 0, resetAt |-> 0]]
  /\ lastVerify = [token |-> NoToken, now |-> 0, ok |-> FALSE]
  /\ window = [k \in ClientKeys |->
                 IF k \in DOMAIN rls.named
                 THEN [opened |-> rls.named[k].resetAt - AuthWindowMs,
                       n |-> rls.named[k].count]
                 ELSE [opened |-> 0, n |-> 0]]
  /\ nCalls = 0
  /\ nTicks = 0

InitAuthVars == InitAuthVarsWith(EmptyMap, 0, <<>>)

InitStoreVars ==
  /\ \E d \in InitDocs :
       /\ store = [doc |-> d, sha |-> 1]
       /\ commits = <<[req |-> 0, inp |-> NoInput, prev |-> d, prevSha |-> 0, doc |-> d,
                       sha |-> 1]>>
  /\ reqs = [r \in Reqs |-> Idle]

\* concurrent authenticated writes on the document
Init == env = Configured /\ InitStoreVars /\ InitAuthVars

Next ==
  \E r \in Reqs :
    \/ Begin(r)
    \/ FetchOk(r)
    \/ FetchFail(r)
    \/ WriteOk(r)
    \/ WriteConflict(r)
    \/ WriteFail(r)

Spec == Init /\ [][Next]_vars

\* one request with any header, body and path parameter
InitGate == env \in {Configured, NoSecret} /\ InitStoreVars /\ InitAuthVars

NextGate ==
  \/ GateBegin
  \/ FetchOk(1)
  \/ FetchFail(1)
  \/ WriteOk(1)
  \/ WriteFail(1)

SpecGate == InitGate /\ [][NextGate]_vars

\* a request with any header, body and path parameter to a store handler, or
\* up to MaxLogins overlapping calls of /api/auth, the limiter empty or late
\* in a window of the client with four calls made; every store call
\* eventually returns or fails, and request.json() and jwt.sign of /api/auth
\* eventually settle.  The store handlers and /api/auth share no state (the
\* former never touch the Map, the latter never touches the store), so the
\* two kinds of request are followed apart.
InitGateFair ==
  /\ env \in {Configured, NoSecret}
  /\ InitStoreVars
  /\ \/ InitAuthVars
     \/ LET late  == AuthWindowMs - 1
            times == <<0, late, late, late>>
        IN  InitAuthVarsWith(MapAfter(EmptyMap, times), late, times)

NextGateFair ==
  \/ nCalls = 0 /\ GateBegin
  \/ FetchOk(1)
  \/ FetchFail(1)
  \/ WriteOk(1)
  \/ WriteFail(1)
  \/ reqs[1].pc = "idle" /\ nCalls < MaxLogins /\ AuthBegin(RateIp)
  \/ \E i \in 1..MaxInFlight, body \in AuthBodies : AuthParsed(i, body, 0)
  \/ \E i \in 1..MaxInFlight : AuthSigned(i)

SpecGateFair ==
  /\ InitGateFair
  /\ [][NextGateFair]_vars
  /\ WF_vars(FetchOk(1) \/ FetchFail(1))
  /\ WF_vars(WriteOk(1) \/ WriteFail(1))
  /\ WF_vars(\E i \in 1..MaxInFlight, body \in AuthBodies : AuthParsed(i, body, 0))
  /\ WF_vars(\E i \in 1..MaxInFlight : AuthSigned(i))

\* authenticated requests one after the other, up to MaxWrites accepted writes
NextSeq ==
  \/ BeginWith(1, SeqInputs)
  \/ FetchOk(1)
  \/ FetchFail(1)
  \/ Len(commits) <= MaxWrites /\ WriteOk(1)
  \/ WriteFail(1)
  \/ Finish(1)

SpecSeq == Init /\ [][NextSeq]_vars

\* the store of the specifications that make no write request
InitStoreIdle ==
  /\ store = [doc |-> SeedDoc, sha |-> 1]
  /\ commits = <<[req |-> 0, inp |-> NoInput, prev |-> SeedDoc, prevSha |-> 0,
                  doc |-> SeedDoc, sha |-> 1]>>
  /\ reqs = [r \in Reqs |-> Idle]

\* the rate limiter of /api/auth for one client under a passing clock
\* the module as constructed, or one millisecond before the end of a window of
\* the client in which it has made four calls
InitRate ==
  /\ env \in Envs
  /\ InitStoreIdle
  /\ \/ InitAuthVars
     \/ LET late  == AuthWindowMs - 1
            times == <<0, late, late, late>>
        IN  InitAuthVarsWith(MapAfter(EmptyMap, times), late, times)

NextRate ==
  \/ AuthBegin(RateIp)
  \/ \E i \in 1..MaxInFlight, body \in AuthBodies : AuthParsed(i, body, 0)
  \/ \E i \in 1..MaxInFlight : AuthSigned(i)
  \/ \E d \in RateTicks : Tick(d)

SpecRate == InitRate /\ [][NextRate]_vars

\* the rate limiter while many other clients are tracked: the Map after one
\* call of n clients, the even ones at time 0, the odd ones at CrowdTime,
\* and after none or five calls of client RateIp at CrowdTime
CrowdTime == 30000
Crowd(n) ==
  [named |-> <<>>,
   others |-> <<[keys |-> n \div 2, entry |-> [count |-> 1, resetAt |-> 0 + AuthWindowMs]],
                [keys |-> n - n \div 2,
                 entry |-> [count |-> 1, resetAt |-> CrowdTime + AuthWindowMs]]>>]

InitCleanup ==
  /\ env = Configured
  /\ InitStoreIdle
  /\ \E n \in {CleanupSize - 1, CleanupSize + 1} :
       \E times \in {<<>>, <<CrowdTime, CrowdTime, CrowdTime, CrowdTime, CrowdTime>>} :
         InitAuthVarsWith(MapAfter(Crowd(n), times), CrowdTime, times)

NextCleanup ==
  \/ \E ip \in ClientIps : AuthBegin(ip)
  \/ \E i \in 1..MaxInFlight : AuthParsed(i, AuthBody(TRUE, Str("wrong")), 0)
  \* time passes: after one step the first half of the other clients' windows
  \* is over, after two every one of them
  \/ Tick(CrowdTime + 1)

SpecCleanup == InitCleanup /\ [][NextCleanup]_vars

\* the tokens of /api/auth on the protected endpoints
InitAuth == env \in Envs /\ InitStoreIdle /\ InitAuthVars

\* the logins carry no CF-Connecting-IP header
NextAuth ==
  \/ nCalls < MaxLogins /\ AuthBegin("")
  \/ \E i \in 1..MaxInFlight, body \in AuthBodies, d \in Skews : AuthParsed(i, body, d)
  \/ \E i \in 1..MaxInFlight : AuthSigned(i)
  \/ \E d \in AuthTicks : Tick(d)
  \/ VerifyIssued

SpecAuth == InitAuth /\ [][NextAuth]_vars

(***************************************************************************)
(* Properties of the write protocol.                                       *)
(***************************************************************************)
Range(q) == {q[i] : i \in 1..Len(q)}

\* the write of request r has ended
Wrote(r) == reqs[r].wres # "none"

\* C1: of the requests that wrote with the same fetched SHA exactly one is
\* accepted by the store; each other one is refused and answered 500.
C1_OneWriterPerSha ==
  /\ \A q, r \in Reqs :
       (q # r /\ reqs[q].wres = "ok" /\ Wrote(r) /\ reqs[r].sha = reqs[q].sha)
         => (reqs[r].wres # "ok" /\ reqs[r].status = 500)
  /\ \A r \in Reqs :
       reqs[r].wres = "conflict"
         => /\ reqs[r].status = 500
            /\ Cardinality({q \in Reqs : reqs[q].wres = "ok"
                                          /\ reqs[q].sha = reqs[r].sha}) = 1
  /\ \A r \in Reqs : reqs[r].wres = "ok" => reqs[r].status = 200

C1_Witness ==
  \E q, r \in Reqs :
    /\ reqs[q].wres = "ok" /\ reqs[r].wres = "conflict"
    /\ reqs[q].sha = reqs[r].sha
    /\ reqs[q].inp.op # reqs[r].inp.op

\* the document request r derives from document d
Mutation(r, d) == Post(reqs[r].inp, d, reqs[r].uuid).data

RECURSIVE Replay(_)
\* the initial document with the mutations of the first i - 1 commits applied in order
Replay(i) == IF i = 1 THEN commits[1].doc ELSE Mutation(commits[i].req, Replay(i - 1))

\* C2: every stored version is the version before it with the mutation of the
\* committing request applied, and the stored document is the sequential
\* application of the accepted requests in commit order.
C2_NoLostUpdate ==
  /\ \A i \in 2..Len(commits) :
       /\ commits[i].prev = commits[i - 1].doc
       /\ commits[i].doc = Mutation(commits[i].req, commits[i - 1].doc)
  /\ store.doc = Replay(Len(commits))

C2_Witness ==
  /\ Len(commits) = 3
  /\ commits[2].doc # commits[1].doc
  /\ commits[3].doc # commits[2].doc
  /\ \E r \in Reqs : reqs[r].wres = "ok" /\ reqs[r].sha = 2

\* the write of request r has failed, by conflict or by a store error
WriteFailed(r) == reqs[r].wres \in {"conflict", "error"}

\* C3 as stated: when the write of a request has failed, the stored document
\* and its SHA are those of before the request.  The version a request
\* fetches is the one stored when it arrived or a later one, and the SHAs of
\* the store only grow: a store that is as it was before the request is as
\* the request fetched it.
C3_StoreAsBeforeRequest ==
  \A r \in Reqs :
    WriteFailed(r)
      => /\ store.sha = reqs[r].sha
         /\ store.doc = commits[reqs[r].sha].doc

\* C3: a request whose write has failed has stored nothing: no stored version
\* is its own, every version stored since the first is the accepted write of
\* another request, and if no other request's write was accepted the stored
\* document and SHA are exactly those of before the request; after a failed
\* profile delete the store holds no version made by that request, neither
\* one without the profile nor one without its tags.
C3_FailedWriteStoresNothing ==
  \A r \in Reqs :
    WriteFailed(r)
      => /\ store.sha = Len(commits)
         /\ store.doc = commits[store.sha].doc
         /\ store.sha >= reqs[r].sha
         /\ \A i \in 2..Len(commits) :
              /\ commits[i].req # r
              /\ reqs[commits[i].req].wres = "ok"
         /\ (\A q \in Reqs \ {r} : reqs[q].wres # "ok")
              => /\ store = [doc |-> commits[1].doc, sha |-> 1]
                 /\ reqs[r].sha = 1

C3_Witness ==
  \E r \in Reqs :
    /\ reqs[r].inp.op = "DELETE /profiles/:id"
    /\ reqs[r].wres = "error"
    /\ store.sha = reqs[r].sha
    /\ \E i \in 1..Len(store.doc.profiles) :
         store.doc.profiles[i].id = Str(reqs[r].inp.param)
    /\ \E i \in 1..Len(store.doc.restaurants) :
         reqs[r].inp.param \in Range(store.doc.restaurants[i].profiles.a)

\* the restaurants of document d tagged with profile id p
Tagged(d, p) ==
  {i \in 1..Len(d.restaurants) :
     IsArray(d.restaurants[i].profiles) /\ p \in Range(d.restaurants[i].profiles.a)}

\* C4: the version a profile delete commits has no profile of that id and no
\* restaurant tagged with it; the other profiles, the other tags and every
\* other restaurant field are those of the version before, in the same order.
C4_DeleteProfileCascade ==
  \A i \in 2..Len(commits) :
    LET r == commits[i].req
        p == reqs[r].inp.param
        before == commits[i].prev
        after == commits[i].doc
    IN  reqs[r].inp.op = "DELETE /profiles/:id" =>
          /\ \A j \in 1..Len(after.profiles) : after.profiles[j].id # Str(p)
          /\ Tagged(after, p) = {}
          /\ after.profiles = SelectSeq(before.profiles, LAMBDA x : x.id # Str(p))
          /\ after.hasP = before.hasP /\ after.hasR = before.hasR
          /\ Len(after.restaurants) = Len(before.restaurants)
          /\ \A j \in 1..Len(before.restaurants) :
               /\ [after.restaurants[j] EXCEPT !.profiles = before.restaurants[j].profiles]
                    = before.restaurants[j]
               /\ after.restaurants[j].profiles.k = before.restaurants[j].profiles.k
               /\ after.restaurants[j].profiles.a
                    = SelectSeq(before.restaurants[j].profiles.a, LAMBDA t : t # p)

C4_Witness ==
  \E i \in 2..Len(commits) :
    /\ reqs[commits[i].req].inp.op = "DELETE /profiles/:id"
    /\ Cardinality(Tagged(commits[i].prev, reqs[commits[i].req].inp.param)) = 2
    /\ store.doc = commits[i].doc

(***************************************************************************)
(* Properties of the gates in front of the store.                          *)
(***************************************************************************)
\* the request carries no usable credential: no header, another scheme, a
\* token of other than three segments, a signature that does not decode or is
\* not the HMAC of the first two segments under the secret, or an exp below
\* the epoch second of the request
Unauthenticated(inp) ==
  \/ ~inp.hdr.present
  \/ inp.hdr.scheme # "Bearer "
  \/ inp.hdr.token.nseg # 3
  \/ ~inp.hdr.token.signature.b64
  \/ inp.hdr.token.signature.key # Secret
  \/ inp.hdr.token.signature.message # <<inp.hdr.token.header, inp.hdr.token.payload>>
  \/ /\ inp.hdr.token.payload.hasExp
     /\ inp.hdr.token.payload.exp < inp.now \div 1000

\* the request is to one of the protected endpoints
IsWrite(inp) == inp.op \notin {"", "GET /restaurants", "GET /profiles"}

\* C5: a write request with no Authorization header, another scheme than
\* 'Bearer ', or a token of the wrong segment count, with a bad signature or
\* expired, is answered 401 and makes no store call.
C5_NoTokenNoStore ==
  \A r \in Reqs :
    (reqs[r].pc # "idle" /\ IsWrite(reqs[r].inp) /\ Unauthenticated(reqs[r].inp))
      => /\ reqs[r].pc = "done"
         /\ reqs[r].status = 401
         /\ reqs[r].fetches = 0
         /\ reqs[r].writes = 0
         /\ store.sha = 1

\* the request is one the validation of its handler turns down
Invalid(inp) ==
  \/ /\ inp.op \in {"POST /restaurants", "PUT /restaurants"}
     /\ ~validateThrows(inp.body)
     /\ ~validateRestaurantData(inp.body).valid
  \/ inp.op = "PUT /restaurants" /\ ~Truthy(inp.body.id)
  \/ /\ inp.op \in {"POST /profiles", "PUT /profiles"}
     /\ (~Truthy(inp.body.id) \/ ~Truthy(inp.body.name))
  \/ /\ inp.op = "POST /profiles"
     /\ (~validateProfileId(inp.body.id) \/ inp.body.id = Str("all"))
  \/ inp.op = "PUT /profiles" /\ inp.body.id = Str("all")

\* C10: an authenticated request that fails validation is answered 400 and
\* makes no store call.
C10_InvalidAnswered400 ==
  \A r \in Reqs :
    (/\ reqs[r].pc # "idle"
     /\ verifyAuth(reqs[r].inp.hdr, env, reqs[r].inp.now)
     /\ reqs[r].inp.json
     /\ Invalid(reqs[r].inp))
      => /\ reqs[r].status = 400
         /\ reqs[r].fetches = 0
         /\ reqs[r].writes = 0

\* the request edits or deletes the profile with id 'all'
TargetsAll(inp) ==
  \/ inp.op = "PUT /profiles" /\ inp.json /\ inp.body.id = Str("all")
  \/ inp.op = "DELETE /profiles/:id" /\ inp.param = "all"

\* C11: an authenticated PUT /profiles with id 'all' and an authenticated
\* DELETE /profiles/all are answered 400 whatever the rest of the payload and
\* the stored document, and the stored document stays as it was.
C11_AllRejected ==
  \A r \in Reqs :
    (/\ reqs[r].pc # "idle"
     /\ verifyAuth(reqs[r].inp.hdr, env, reqs[r].inp.now)
     /\ TargetsAll(reqs[r].inp))
      => /\ reqs[r].pc = "done"
         /\ reqs[r].status = 400
         /\ reqs[r].writes = 0
         /\ store = [doc |-> commits[1].doc, sha |-> 1]

C11_Witness ==
  \E r \in Reqs :
    /\ reqs[r].inp.op = "PUT /profiles"
    /\ reqs[r].inp.hdr = Good
    /\ reqs[r].inp.body = ProfileBody(Str("all"), Str("Work"))
    /\ reqs[r].status = 400
    /\ store.doc = SeedDoc

\* the entries of the profiles collection of d with id 'all', in their order
AllEntries(d) == SelectSeq(d.profiles, LAMBDA p : p.id = Str("all"))

\* C12: when the stored document has a profiles collection, its entries with
\* id 'all' (number, names, order) are in every stored version those of the
\* initial document, whatever requests ran and however they interleaved.
C12_ReservedProfileKept ==
  commits[1].doc.hasP =>
    /\ store.doc.hasP
    /\ AllEntries(store.doc) = AllEntries(commits[1].doc)
    /\ \A i \in 1..Len(commits) : AllEntries(commits[i].doc) = AllEntries(commits[1].doc)

C12_Witness ==
  /\ commits[1].doc.hasP
  /\ Len(AllEntries(store.doc)) = 1
  /\ Len(commits) > 1
  /\ store.doc.profiles # commits[1].doc.profiles
  /\ \E q, r \in Reqs :
       /\ reqs[q].inp.op = "DELETE /profiles/:id" /\ reqs[q].inp.param = "all"
       /\ reqs[q].status = 400
       /\ reqs[r].inp.op = "DELETE /profiles/:id" /\ reqs[r].inp.param = "p1"
       /\ reqs[r].wres = "ok"

\* the ids of the records of q are pairwise distinct
DistinctIds(q) == \A i, j \in 1..Len(q) : q[i].id = q[j].id => i = j

\* the document request r fetched: the file SHA counts the versions
Fetched(r) == commits[reqs[r].sha].doc

\* C13: the profile ids of every stored version are pairwise distinct; a
\* POST /profiles whose id is in the document it fetched is answered 400
\* without a write; of two POST /profiles with the same id that fetched the
\* same version at most one is persisted.
C13_ProfileIdsDistinct ==
  /\ \A i \in 1..Len(commits) : DistinctIds(commits[i].doc.profiles)
  /\ DistinctIds(store.doc.profiles)
  /\ \A r \in Reqs :
       (/\ reqs[r].inp.op = "POST /profiles"
        /\ reqs[r].sha > 0
        /\ \E i \in 1..Len(Fetched(r).profiles) :
             Fetched(r).profiles[i].id = reqs[r].inp.body.id)
         => (reqs[r].status = 400 /\ reqs[r].writes = 0 /\ reqs[r].wres = "none")
  /\ \A q, r \in Reqs :
       (/\ q # r
        /\ reqs[q].inp.op = "POST /profiles" /\ reqs[r].inp.op = "POST /profiles"
        /\ reqs[q].inp.body.id = reqs[r].inp.body.id
        /\ reqs[q].sha = reqs[r].sha)
         => ~(reqs[q].wres = "ok" /\ reqs[r].wres = "ok")

C13_Witness ==
  \E q, r \in Reqs :
    /\ reqs[q].inp.op = "POST /profiles" /\ reqs[r].inp.op = "POST /profiles"
    /\ reqs[q].inp.body.id = Str("p3") /\ reqs[r].inp.body.id = Str("p3")
    /\ reqs[q].wres = "ok"
    /\ reqs[r].sha = reqs[q].sha + 1
    /\ reqs[r].status = 400
    /\ Len(store.doc.profiles) = 4

(***************************************************************************)
(* Properties of /api/auth.                                                *)
(***************************************************************************)
\* C6: verify accepts an issued token from its iat up to iat + 3600 seconds
\* and rejects it afterwards.
C6_TokenLifetime ==
  (lastVerify.token # NoToken /\ lastVerify.now \div 1000 >= lastVerify.token.payload.iat)
    => (lastVerify.ok
          <=> lastVerify.now \div 1000 <= lastVerify.token.payload.iat + TokenLifetime)

\* the position of the last /api/auth call in the window of its key
CallInWindow == lastAuth.n

\* the answer of the rate limiter
Denied(response) ==
  /\ response.status = 429
  /\ response.retryAfter
  /\ response.error = "Too many authentication attempts. Please try again later."
  /\ ~response.authenticated
  /\ response.token = NoToken

\* C7 as stated: the first 5 calls of a window are answered below 500, every
\* further call of the window 429 with Retry-After and without a token.
C7_FirstFiveBelow500 ==
  lastAuth.key # "" =>
    IF CallInWindow <= AuthMaxRequests THEN lastAuth.response.status < 500
    ELSE Denied(lastAuth.response)

\* C7: the first 5 calls of a window are not answered 429, and below 500 when
\* the signing secret is set; every further call of the window is answered
\* 429 with Retry-After and without a token, whatever its body.
C7_FirstFivePass ==
  lastAuth.key # "" =>
    IF CallInWindow <= AuthMaxRequests
    THEN /\ lastAuth.response.status # 429
         /\ Truthy(env.JWT_SECRET) => lastAuth.response.status < 500
    ELSE /\ Denied(lastAuth.response)
         /\ lastAuth.response.token \notin issued

C7_Witness ==
  /\ lastAuth.key # ""
  /\ env = Configured
  /\ CallInWindow = AuthMaxRequests + 1
  /\ pending # <<>>
  /\ pending[1].opened = lastAuth.opened
  /\ lastAuth.response.status = 429
  /\ lastAuth.at = lastAuth.opened + AuthWindowMs

\* C8: checkRateLimit opens a window (count 1, resetAt now + windowMs, allowed)
\* when the key has no entry or now > resetAt; otherwise it adds one to count,
\* keeps resetAt and allows the call iff the new count is at most maxRequests.
C8_RateLimitRule ==
  lastCheck.key # "" =>
    /\ rateLimitStore.named[lastCheck.key] = lastCheck.after
    /\ IF ~lastCheck.had \/ lastCheck.now > lastCheck.before.resetAt
       THEN /\ lastCheck.after = [count |-> 1, resetAt |-> lastCheck.now + AuthWindowMs]
            /\ lastCheck.allowed
            /\ lastCheck.resetAt = lastCheck.now + AuthWindowMs
       ELSE /\ lastCheck.after = [count |-> lastCheck.before.count + 1,
                                  resetAt |-> lastCheck.before.resetAt]
            /\ lastCheck.allowed <=> lastCheck.before.count + 1 <= AuthMaxRequests
            /\ lastCheck.resetAt = lastCheck.before.resetAt

C8_Witness ==
  /\ lastCheck.had
  /\ lastCheck.now = lastCheck.before.resetAt
  /\ lastCheck.after.count = AuthMaxRequests
  /\ lastCheck.allowed

\* C9 as stated: no interval of 60,000 ms holds more than 5 calls of one key
\* that passed the limiter.
C9_FivePerAnyMinute ==
  \A k \in ClientKeys :
    \A i, j \in 1..Len(passes[k]) :
      (i <= j /\ passes[k][j] - passes[k][i] < AuthWindowMs)
        => j - i + 1 <= AuthMaxRequests

\* the calls of key k that passed the limiter in the current window of k
PassedInWindow(k) ==
  {i \in 1..Len(passes[k]) :
     /\ passes[k][i] >= window[k].opened
     /\ passes[k][i] <= window[k].opened + AuthWindowMs}

\* C9: no rate-limit window of a key holds more than 5 calls that passed.
C9_FivePerWindow ==
  \A k \in ClientKeys : window[k].n > 0 => Cardinality(PassedInWindow(k)) <= AuthMaxRequests

C9_Witness ==
  \E k \in ClientKeys :
    /\ window[k].n > AuthMaxRequests
    /\ Cardinality(PassedInWindow(k)) = AuthMaxRequests
    /\ lastAuth.response.status = 429

\* the ids of the records of q are pairwise distinct when compared as strings
DistinctAsStrings(q) == \A i, j \in 1..Len(q) : String(q[i].id) = String(q[j].id) => i = j

\* C14: the restaurant ids of every stored version are pairwise distinct as
\* strings, also after a POST /restaurants that carries its own id.
C14_RestaurantIdsDistinct ==
  DistinctAsStrings(commits[1].doc.restaurants) => DistinctAsStrings(store.doc.restaurants)

\* every tag of every restaurant of d names a profile of the profiles collection of d
Integrity(d) ==
  \A i \in 1..Len(d.restaurants) :
    IsArray(d.restaurants[i].profiles) =>
      \A t \in Range(d.restaurants[i].profiles.a) :
        \E j \in 1..Len(d.profiles) : d.profiles[j].id = Str(t)

\* C15 as stated: every stored version reachable from a document whose tags
\* all name profiles has only tags that name profiles.
C15_ReferentialIntegrity == Integrity(commits[1].doc) => Integrity(store.doc)

\* C15: profile creates, updates and deletes and restaurant deletes keep
\* referential integrity: the version such a request commits has only tags
\* that name profiles when the version before it has.
C15_IntegrityKeptByOthers ==
  \A i \in 2..Len(commits) :
    (/\ commits[i].inp.op \notin {"POST /restaurants", "PUT /restaurants"}
     /\ Integrity(commits[i].prev))
      => Integrity(commits[i].doc)

C15_Witness ==
  \E i \in 2..Len(commits) :
    /\ commits[i].inp.op = "DELETE /profiles/:id"
    /\ commits[i].inp.param = "p1"
    /\ Integrity(commits[i].prev)
    /\ Tagged(commits[i].prev, "p1") # {}
    /\ store.doc = commits[i].doc
    /\ Len(commits) > 2

\* the restaurant has a non-blank name, a non-empty foodTypes sequence and a
\* non-empty serviceTypes sequence of the four service types
WellFormed(x) ==
  /\ x.name.k = "str"
  /\ \E i \in 1..Len(Chars(x.name.s)) : Chars(x.name.s)[i] # " "
  /\ x.foodTypes.k = "arr" /\ x.foodTypes.a # <<>>
  /\ x.serviceTypes.k = "arr" /\ x.serviceTypes.a # <<>>
  /\ Range(x.serviceTypes.a) \subseteq {"takeout", "delivery", "dine-in", "at-home"}

AllWellFormed(d) == \A i \in 1..Len(d.restaurants) : WellFormed(d.restaurants[i])

\* C16: when every restaurant of the initial document is well formed, every
\* restaurant of every stored version is.
C16_StoredRestaurantsValid ==
  AllWellFormed(commits[1].doc) =>
    /\ AllWellFormed(store.doc)
    /\ \A i \in 1..Len(commits) : AllWellFormed(commits[i].doc)

C16_Witness ==
  /\ reqs[1].inp.op = "PUT /restaurants"
  /\ reqs[1].inp.body = [EditR EXCEPT !.foodTypes = Arr(<<>>)]
  /\ reqs[1].status = 400
  /\ \E i \in 2..Len(commits) : commits[i].inp.op = "PUT /restaurants"
  /\ \E i \in 2..Len(commits) : commits[i].inp.op = "POST /restaurants"
  /\ store.doc.restaurants[1] = EditR

\* the menuLink of the payload is present, non-empty and no absolute URL
BadMenuLink(body) ==
  /\ body.menuLink.k = "str"
  /\ body.menuLink.s # ""
  /\ ~validateURL(body.menuLink).valid

\* C17: a POST or PUT on /restaurants whose menuLink is present, non-empty and
\* no valid absolute URL is rejected without a write, and no stored restaurant
\* that a request wrote has such a menuLink.
C17_MenuLinkValidated ==
  /\ \A r \in Reqs :
       (/\ reqs[r].pc = "done"
        /\ reqs[r].inp.op \in {"POST /restaurants", "PUT /restaurants"}
        /\ BadMenuLink(reqs[r].inp.body))
         => (reqs[r].status # 200 /\ reqs[r].writes = 0)
  /\ \A i \in 2..Len(commits) :
       \A j \in 1..Len(commits[i].doc.restaurants) :
         BadMenuLink(commits[i].doc.restaurants[j])
           => commits[i].doc.restaurants[j] \in Range(commits[1].doc.restaurants)


\* the position of the record DELETE /restaurants/{id} finds in d for the id
\* of a payload: the first one whose id is the same string
DeleteFinds(d, id) ==
  IF \E i \in 1..Len(d.restaurants) : String(d.restaurants[i].id) = String(id)
  THEN CHOOSE i \in 1..Len(d.restaurants) :
         /\ String(d.restaurants[i].id) = String(id)
         /\ \A j \in 1..(i - 1) : String(d.restaurants[j].id) # String(id)
  ELSE 0

\* C18: PUT /restaurants finds a record exactly when DELETE /restaurants/{id}
\* with the same id finds one, and it replaces that record.
C18_PutFindsLikeDelete ==
  \A r \in Reqs :
    (/\ reqs[r].inp.op = "PUT /restaurants"
     /\ reqs[r].sha > 0
     /\ Fetched(r).hasR)
      => LET k == DeleteFinds(Fetched(r), reqs[r].inp.body.id)
         IN  /\ k = 0 <=> reqs[r].status = 404
             /\ (k # 0 /\ reqs[r].writes = 1)
                  => reqs[r].data.restaurants
                       = [Fetched(r).restaurants EXCEPT ![k] = reqs[r].inp.body]

\* the id the update or delete names is the id of no record of document d
NotInDoc(inp, d) ==
  CASE inp.op = "PUT /restaurants" ->
         \A i \in 1..Len(d.restaurants) : String(d.restaurants[i].id) # String(inp.body.id)
    [] inp.op = "DELETE /restaurants/:id" ->
         \A i \in 1..Len(d.restaurants) : String(d.restaurants[i].id) # inp.param
    [] inp.op = "PUT /profiles" ->
         \A i \in 1..Len(d.profiles) : d.profiles[i].id # inp.body.id
    [] inp.op = "DELETE /profiles/:id" ->
         \A i \in 1..Len(d.profiles) : d.profiles[i].id # Str(inp.param)
    [] OTHER -> FALSE

\* C19: an authenticated, well-formed update or delete whose id is in no
\* record of the fetched document is answered 404 and makes no store write,
\* also when the document has no restaurants or no profiles collection.
C19_UnknownIdAnswered404 ==
  \A r \in Reqs :
    (reqs[r].sha > 0 /\ NotInDoc(reqs[r].inp, Fetched(r)))
      => (reqs[r].status = 404 /\ reqs[r].writes = 0)

\* sequence q without its element at position k
Without(q, k) == SubSeq(q, 1, k - 1) \o SubSeq(q, k + 1, Len(q))

\* after is before with one restaurant write applied to its target only
OnlyTargetChanged(inp, before, after) ==
  /\ after.profiles = before.profiles
  /\ after.hasP = before.hasP
  /\ CASE inp.op = "POST /restaurants" ->
            /\ Len(after.restaurants) = Len(before.restaurants) + 1
            /\ SubSeq(after.restaurants, 1, Len(before.restaurants)) = before.restaurants
            /\ [after.restaurants[Len(after.restaurants)] EXCEPT !.id = inp.body.id]
                 = inp.body
       [] inp.op = "PUT /restaurants" ->
            \E k \in 1..Len(before.restaurants) :
              /\ before.restaurants[k].id = inp.body.id
              /\ \A j \in 1..(k - 1) : before.restaurants[j].id # inp.body.id
              /\ after.restaurants = [before.restaurants EXCEPT ![k] = inp.body]
       [] inp.op = "DELETE /restaurants/:id" ->
            \E k \in 1..Len(before.restaurants) :
              /\ String(before.restaurants[k].id) = inp.param
              /\ \A j \in 1..(k - 1) : String(before.restaurants[j].id) # inp.param
              /\ after.restaurants = Without(before.restaurants, k)

\* C20: a successful restaurant create appends its record, an update replaces
\* the matched record in place, a delete removes the first matched record;
\* every other restaurant, the order and the profiles collection stay.
C20_OnlyTargetChanges ==
  \A i \in 2..Len(commits) :
    commits[i].inp.op \in {"POST /restaurants", "PUT /restaurants",
                           "DELETE /restaurants/:id"}
      => OnlyTargetChanged(commits[i].inp, commits[i].prev, commits[i].doc)

C20_Witness ==
  \E i \in 2..Len(commits) :
    /\ commits[i].inp.op = "DELETE /restaurants/:id"
    /\ commits[i].inp.param = "1"
    /\ Cardinality({j \in 1..Len(commits[i].prev.restaurants) :
                      String(commits[i].prev.restaurants[j].id) = "1"}) = 2
    /\ Len(commits[i].doc.restaurants) = 3
    /\ commits[i].doc.restaurants[3] = DupR
    /\ store.doc = commits[i].doc

(***************************************************************************)
(* Round trip of a created restaurant                                      *)
(***************************************************************************)

HexDigits == {HexDigit(v) : v \in 0..15}

\* /^[0-9a-f]{8}-[0-9a-f]{4}-4[0-9a-f]{3}-[89ab][0-9a-f]{3}-[0-9a-f]{12}$/
IsUuidV4(c) ==
  /\ Len(c) = 36
  /\ \A i \in 1..Len(c) :
       CASE i \in {9, 14, 19, 24} -> c[i] = "-"
         [] i = 15                -> c[i] = "4"
         [] i = 20                -> c[i] \in {"8", "9", "a", "b"}
         [] OTHER                 -> c[i] \in HexDigits

\* the last accepted write is a POST /restaurants whose payload had no id
LastIsCreate ==
  /\ Len(commits) >= 2
  /\ commits[Len(commits)].inp.op = "POST /restaurants"
  /\ ~Truthy(commits[Len(commits)].inp.body.id)

\* C21: the record in the response of a successful POST /restaurants without
\* an id is the record that was stored; a GET /restaurants that follows it
\* with no write in between and is answered 200 returns the previous
\* restaurants followed by one new record, whose id is the UUID-v4-shaped
\* string generated for that request and whose other fields are the
\* submitted payload.
C21_RoundTrip ==
  LastIsCreate =>
    LET c == commits[Len(commits)]
        n == Len(c.prev.restaurants)
    IN  /\ (reqs[1].pc = "done" /\ reqs[1].wres = "ok")
             => /\ reqs[1].rec.kind = "restaurant"
                /\ reqs[1].rec.r = store.doc.restaurants[n + 1]
        /\ (reqs[1].pc = "done" /\ reqs[1].inp.op = "GET /restaurants"
               /\ reqs[1].status = 200)
             => /\ reqs[1].sha = c.sha
                /\ reqs[1].data.hasR
                /\ Len(reqs[1].data.restaurants) = n + 1
                /\ SubSeq(reqs[1].data.restaurants, 1, n) = c.prev.restaurants
                /\ LET new == reqs[1].data.restaurants[n + 1]
                   IN  /\ new.id.k = "str"
                       /\ IsUuidV4(Chars(String(new.id)))
                       /\ \E draws \in RandomDraws : new.id = Str(generateUUID(draws))
                       /\ [new EXCEPT !.id = Undef] = c.inp.body

C21_Witness ==
  /\ LastIsCreate
  /\ commits[Len(commits)].prev = SeedDoc
  /\ reqs[1].pc = "done"
  /\ reqs[1].inp.op = "GET /restaurants"
  /\ reqs[1].status = 200
  /\ Len(reqs[1].data.restaurants) = 4
  /\ reqs[1].data.restaurants[4]
       = [NewR EXCEPT !.id = Str("920252f7-c36a-4e79-bf2f-02af5e44770b")]

(***************************************************************************)
(* The responses of /api/auth                                              *)
(***************************************************************************)

\* C22: every token /api/auth has issued carries exp = iat + 3600, and so
\* exp > iat, whenever the request was processed.
C22_ExactLifetime ==
  \A token \in issued :
    /\ token.payload.exp = token.payload.iat + TokenLifetime
    /\ token.payload.exp > token.payload.iat

\* the last /api/auth call passed the rate limiter
Passed == lastAuth.key # "" /\ lastAuth.response.status # 429

\* C23: a call of /api/auth that passes the rate limiter with a well-formed
\* JSON body, while the signing secret is configured, and whose password is
\* not the configured admin credential, is answered 401 with
\* authenticated false and without a token, and issues no token.
C23_WrongPassword401 ==
  (/\ Passed
   /\ lastAuth.body.json
   /\ Truthy(env.JWT_SECRET)
   /\ lastAuth.body.password # env.ADMIN_PASSWORD)
    => /\ lastAuth.response.status = 401
       /\ ~lastAuth.response.authenticated
       /\ lastAuth.response.token = NoToken
       /\ lastAuth.response.error = "Invalid password"

C23_Witness ==
  /\ Passed
  /\ env = Configured
  /\ lastAuth.body = AuthBody(TRUE, Str("wrong"))
  /\ lastAuth.response.status = 401
  /\ CallInWindow = AuthMaxRequests

\* the 500 of /api/auth that names the missing key
NamesJwtSecret(response) ==
  /\ response.status = 500
  /\ response.error = "Server configuration error: JWT_SECRET not set"
  /\ ~response.authenticated
  /\ response.token = NoToken

\* C24 as stated: with the signing secret unset every call of /api/auth that
\* passes the rate limiter is answered 500 naming JWT_SECRET, whatever its
\* body, and no token is issued.
C24_Always500 ==
  (Passed /\ ~Truthy(env.JWT_SECRET))
    => NamesJwtSecret(lastAuth.response) /\ issued = {}

\* C24: with the signing secret unset a call of /api/auth that passes the
\* rate limiter is answered 500 naming JWT_SECRET when its body is read as
\* JSON, whatever the password, and 400 'Invalid request' when it is not; no
\* token is issued.
C24_NoSecret ==
  (Passed /\ ~Truthy(env.JWT_SECRET))
    => /\ IF lastAuth.body.json THEN NamesJwtSecret(lastAuth.response)
          ELSE /\ lastAuth.response.status = 400
               /\ lastAuth.response.error = "Invalid request"
               /\ ~lastAuth.response.authenticated
               /\ lastAuth.response.token = NoToken
       /\ issued = {}

C24_Witness ==
  /\ Passed
  /\ env = NoSecret
  /\ lastAuth.body = AuthBody(TRUE, Str("pw"))
  /\ NamesJwtSecret(lastAuth.response)

(***************************************************************************)
(* Failures on the protected endpoints                                     *)
(***************************************************************************)

\* C25: a request to a protected endpoint that carries a Bearer token while
\* the signing secret is unset is not given the 401 of a bad token.
C25_MissingSecretDistinct ==
  (/\ reqs[1].pc = "done"
   /\ IsWrite(reqs[1].inp)
   /\ reqs[1].inp.hdr.present
   /\ reqs[1].inp.hdr.scheme = "Bearer "
   /\ ~Truthy(env.JWT_SECRET))
    => reqs[1].status # 401

\* C26: an authenticated POST or PUT on /restaurants or /profiles whose body
\* is not valid JSON is answered 400 and makes no store call.
C26_MalformedBody400 ==
  (/\ reqs[1].pc = "done"
   /\ reqs[1].inp.op \in {"POST /restaurants", "PUT /restaurants",
                          "POST /profiles", "PUT /profiles"}
   /\ verifyAuth(reqs[1].inp.hdr, env, reqs[1].inp.now)
   /\ ~reqs[1].inp.json)
    => /\ reqs[1].status = 400
       /\ reqs[1].fetches = 0
       /\ reqs[1].writes = 0

\* the fetch of request r has failed: it has ended without a fetched version
FetchFailed(r) == reqs[r].pc = "done" /\ reqs[r].fetches > 0 /\ reqs[r].sha = 0

\* the 500 envelope { error: message } of the handler of request r
Envelope500(r) ==
  /\ reqs[r].status = 500
  /\ reqs[r].error.prefix = FailedPrefix(reqs[r].inp.op)
  /\ reqs[r].error.prefix # ""

\* C27: a request whose fetch failed, or whose write was rejected as a
\* conflict or failed otherwise, is answered 500 with an error field; the
\* message of a rejected or failed write carries the status and the body of
\* the store's answer.
C27_StoreFailure500 ==
  \A r \in Reqs :
    /\ FetchFailed(r) => Envelope500(r)
    /\ (reqs[r].pc = "done" /\ reqs[r].wres = "conflict")
         => /\ Envelope500(r)
            /\ reqs[r].error.cause.status = StoreConflict.status
            /\ reqs[r].error.cause.body = StoreConflict.body
    /\ (reqs[r].pc = "done" /\ reqs[r].wres = "error")
         => /\ Envelope500(r)
            /\ reqs[r].error.cause.status = StoreUnavailable.status
            /\ reqs[r].error.cause.body = StoreUnavailable.body

C27_Witness ==
  \E q, r \in Reqs :
    /\ reqs[q].wres = "ok"
    /\ reqs[r].pc = "done"
    /\ reqs[r].wres = "conflict"
    /\ reqs[r].status = 500
    /\ reqs[r].error.cause.status = 409

\* the numbers of the /api/auth calls that wait for their body or signature
Waiting == {pending[i].serial : i \in 1..Len(pending)}

\* C28: provided each store call eventually returns or fails, a request
\* that has reached a store handler is eventually answered, and an answered
\* request is answered once: its response does not change afterwards.  Every
\* call of /api/auth is eventually answered, by the 429 of the rate limiter
\* or after its body was read, and once: an answer goes to a call that has
\* just arrived or was waiting, and that call waits no longer.
C28_AlwaysAnswered ==
  /\ (reqs[1].pc # "idle") ~> (reqs[1].pc = "done")
  /\ [][reqs[1].pc = "done" => reqs'[1] = reqs[1]]_vars
  /\ [][nCalls' # nCalls
         => (nCalls' = nCalls + 1 /\ (nCalls' \in Waiting' \/ lastAuth'.serial = nCalls'))]_vars
  /\ \A c \in 1..MaxLogins : (c \in Waiting) ~> (lastAuth.serial = c)
  /\ [](Cardinality(Waiting) = Len(pending) /\ \A c \in Waiting : c <= nCalls)
  /\ [][lastAuth' # lastAuth
         => /\ lastAuth'.response.status \in {200, 400, 401, 429, 500}
            /\ lastAuth'.serial \in Waiting \cup {nCalls + 1}
            /\ lastAuth'.serial \notin {pending'[i].serial : i \in 1..Len(pending')}
            /\ lastAuth'.serial <= nCalls']_vars

C28_Witness ==
  /\ reqs[1].pc = "done"
  /\ reqs[1].inp.op = "DELETE /profiles/:id"
  /\ reqs[1].fetches = 1
  /\ reqs[1].writes = 1
  /\ reqs[1].wres = "error"
  /\ reqs[1].status = 500

(***************************************************************************)
(* validateRestaurantData                                                  *)
(***************************************************************************)

\* request 1 is an authenticated restaurant write whose body was read
Validated ==
  /\ reqs[1].pc # "idle"
  /\ reqs[1].inp.op \in {"POST /restaurants", "PUT /restaurants"}
  /\ verifyAuth(reqs[1].inp.hdr, env, reqs[1].inp.now)
  /\ reqs[1].inp.json

\* a field of the payload has another type than the rules expect
WronglyTyped(p) ==
  \/ p.name.k \notin {"str", "undef"}
  \/ ~IsArray(p.foodTypes)
  \/ ~IsArray(p.serviceTypes)

\* C29: validateRestaurantData returns a result and does not throw whatever
\* the types of the payload's fields; an authenticated restaurant write whose
\* payload has a field of a wrong type is answered 400 and not 500.
C29_ValidationNeverThrows ==
  Validated
    => /\ ~validateThrows(reqs[1].inp.body)
       /\ WronglyTyped(reqs[1].inp.body)
            => /\ reqs[1].status = 400
               /\ reqs[1].fetches = 0

\* the service types of the payload that are none of the four known ones,
\* in the order of the payload, separated by a comma and a space
RECURSIVE Offending(_)
Offending(q) ==
  IF q = <<>> THEN ""
  ELSE LET rest == Offending(Tail(q))
       IN  IF Head(q) \in {"takeout", "delivery", "dine-in", "at-home"} THEN rest
           ELSE IF rest = "" THEN Head(q)
           ELSE Head(q) \o ", " \o rest

\* the rules of a restaurant payload, in the order of their messages; the
\* message of the fourth rule names the offending service types
RuleMessages(p) ==
  <<"Restaurant name is required", "At least one food type is required",
    "At least one service type is required",
    "Invalid service types: " \o Offending(p.serviceTypes.a),
    "Profiles must be an array", "Dietary restrictions must be an array">>

RuleViolated(p) ==
  <<\/ p.name.k = "undef"
    \/ p.name.k = "str" /\ \A i \in 1..Len(Chars(p.name.s)) : Chars(p.name.s)[i] = " ",
    p.foodTypes.k # "arr" \/ p.foodTypes.a = <<>>,
    p.serviceTypes.k # "arr" \/ p.serviceTypes.a = <<>>,
    /\ p.serviceTypes.k = "arr"
    /\ \E i \in 1..Len(p.serviceTypes.a) :
         p.serviceTypes.a[i] \notin {"takeout", "delivery", "dine-in", "at-home"},
    p.profiles.k \notin {"undef", "arr"},
    p.dietaryRestrictions.k \notin {"undef", "arr"}>>

\* one message for each violated rule and nothing else
ExpectedErrors(p) ==
  LET hit == SelectSeq(<<1, 2, 3, 4, 5, 6>>, LAMBDA i : RuleViolated(p)[i])
  IN  [k \in 1..Len(hit) |-> RuleMessages(p)[hit[k]]]

\* C30: for every payload validateRestaurantData returns a result whose
\* errors list holds one message for each violated rule and nothing else,
\* and whose valid is true iff the list is empty.
C30_ErrorsAccumulate ==
  Validated
    => /\ ~validateThrows(reqs[1].inp.body)
       /\ validateRestaurantData(reqs[1].inp.body).errors
            = ExpectedErrors(reqs[1].inp.body)
       /\ validateRestaurantData(reqs[1].inp.body).valid
            <=> validateRestaurantData(reqs[1].inp.body).errors = <<>>

(***************************************************************************)
(* The store calls of one request                                          *)
(***************************************************************************)

\* C31: a write request issues at most one fetch and at most one write, the
\* write only after its fetch has returned, and with the SHA that fetch
\* returned; once its write is rejected or has failed it makes no further
\* store call.
C31_OneFetchOneWrite ==
  /\ [](\A r \in Reqs :
          /\ reqs[r].fetches <= 1
          /\ reqs[r].writes <= 1
          /\ reqs[r].writes = 1
               => /\ reqs[r].fetches = 1
                  /\ reqs[r].sha \in 1..Len(commits)
                  /\ reqs[r].data = Post(reqs[r].inp, Fetched(r), reqs[r].uuid).data
          /\ reqs[r].wres = "ok"
               => \E i \in 2..Len(commits) :
                    commits[i].req = r /\ commits[i].prevSha = reqs[r].sha)
  /\ [][\A r \in Reqs :
          reqs[r].wres \in {"conflict", "error"} => reqs'[r] = reqs[r]]_vars

C31_Witness ==
  \E q, r \in Reqs :
    /\ reqs[q].wres = "ok"
    /\ reqs[r].wres = "conflict"
    /\ reqs[r].pc = "done"
    /\ reqs[r].fetches = 1
    /\ reqs[r].writes = 1
    /\ reqs[r].sha = reqs[q].sha
    /\ reqs[r].inp.op = "POST /restaurants"

\* request r has been answered 200 with success: true
Succeeded(r) == reqs[r].pc = "done" /\ IsWrite(reqs[r].inp) /\ reqs[r].status = 200

\* the record of the response of request r is in document d
RecordIn(r, d) ==
  IF reqs[r].rec.kind = "restaurant" THEN reqs[r].rec.r \in Range(d.restaurants)
  ELSE reqs[r].rec.kind = "profile" /\ reqs[r].rec.p \in Range(d.profiles)

\* the version the accepted write of request r created
CommitOf(r) == CHOOSE i \in 2..Len(commits) : commits[i].req = r

\* C32 as stated: a write request is answered 200 only after the store
\* accepted its write, and the record in the response is in the document
\* version that write created.
C32_RecordInCreatedVersion ==
  \A r \in Reqs :
    Succeeded(r)
      => /\ reqs[r].wres = "ok"
         /\ \E i \in 2..Len(commits) : commits[i].req = r
         /\ RecordIn(r, commits[CommitOf(r)].doc)

\* C32: a write request is answered 200 only after the store accepted its
\* write, which stored the document the handler built; the record in the
\* response of a create or an update is in the version that write created,
\* the record in the response of a delete is the one that write removed: it
\* is in the version before and has the id of the request.
C32_SuccessMeansPersisted ==
  \A r \in Reqs :
    Succeeded(r)
      => /\ reqs[r].wres = "ok"
         /\ \E i \in 2..Len(commits) : commits[i].req = r
         /\ LET c == commits[CommitOf(r)]
            IN  /\ c.doc = reqs[r].data
                /\ c.sha = reqs[r].sha + 1
                /\ CASE reqs[r].inp.op = "DELETE /restaurants/:id" ->
                          /\ RecordIn(r, c.prev)
                          /\ String(reqs[r].rec.r.id) = reqs[r].inp.param
                          /\ Len(c.doc.restaurants) = Len(c.prev.restaurants) - 1
                     [] reqs[r].inp.op = "DELETE /profiles/:id" ->
                          /\ RecordIn(r, c.prev)
                          /\ ~RecordIn(r, c.doc)
                          /\ reqs[r].rec.p.id = Str(reqs[r].inp.param)
                     [] OTHER -> RecordIn(r, c.doc)

C32_Witness ==
  \E q, r \in Reqs :
    /\ Succeeded(q) /\ Succeeded(r)
    /\ reqs[q].inp.op = "PUT /profiles"
    /\ reqs[q].rec.p = Profile(Str("p1"), Str("Taco"))
    /\ reqs[r].inp.op = "DELETE /restaurants/:id"
    /\ reqs[r].rec.r = R2
    /\ R2 \notin Range(store.doc.restaurants)

(***************************************************************************)
(* Credentials of /api/auth                                                *)
(***************************************************************************)

\* C33: /api/auth issues a token only for a body that carries a password
\* equal to a configured admin credential: none while ADMIN_PASSWORD is unset
\* and none for a body without a password.
C33_TokenNeedsCredential ==
  (lastAuth.key # "" /\ lastAuth.response.token # NoToken)
    => /\ lastAuth.body.json
       /\ lastAuth.body.password.k = "str"
       /\ Truthy(env.ADMIN_PASSWORD)
       /\ lastAuth.body.password = env.ADMIN_PASSWORD

(***************************************************************************)
(* The windows of the rate limiter                                         *)
(***************************************************************************)

\* C34: a call for a key that has used up its limit, made while the window
\* is in force, is denied, adds one to the count and keeps resetAt; the first
\* call for the key at a time after resetAt is allowed and opens a new
\* window, however many calls were denied before.
C34_DeniedKeepsWindow ==
  (lastCheck.key # "" /\ lastCheck.had)
    => /\ (lastCheck.before.count >= AuthMaxRequests
           /\ lastCheck.now <= lastCheck.before.resetAt)
            => /\ ~lastCheck.allowed
               /\ lastCheck.after.count = lastCheck.before.count + 1
               /\ lastCheck.after.resetAt = lastCheck.before.resetAt
       /\ lastCheck.now > lastCheck.before.resetAt
            => /\ lastCheck.allowed
               /\ lastCheck.after = [count |-> 1,
                                     resetAt |-> lastCheck.now + AuthWindowMs]

C34_Witness ==
  /\ lastCheck.key # ""
  /\ lastCheck.had
  /\ lastCheck.before.count > AuthMaxRequests
  /\ lastCheck.now = lastCheck.before.resetAt + 1
  /\ lastCheck.allowed
  /\ lastAuth.at = lastCheck.now
  /\ lastAuth.response.status # 429

\* C35: every call gets the allowed, remaining and resetAt a limiter without
\* the cleanup gives it; an entry leaves the Map only in a call made while
\* more than 10,000 keys are tracked, and only if its window is over.
C35_CleanupKeepsDecisions ==
  /\ [](lastCheck.key # ""
          => /\ lastCheck.allowed = lastCheck.plain.allowed
             /\ lastCheck.remaining = lastCheck.plain.remaining
             /\ lastCheck.resetAt = lastCheck.plain.resetAt)
  /\ [][/\ \A k \in DOMAIN rateLimitStore.named \ DOMAIN rateLimitStore'.named :
             /\ MapSize(rateLimitStore) > CleanupSize
             /\ clock > rateLimitStore.named[k].resetAt
        /\ \A g \in Range(rateLimitStore.others) \ Range(rateLimitStore'.others) :
             /\ MapSize(rateLimitStore) > CleanupSize
             /\ clock > g.entry.resetAt]_vars

C35_Witness ==
  /\ lastCheck.key # ""
  /\ lastCheck.size > CleanupSize
  /\ Len(rateLimitStore.others) = 1
  /\ clock <= rateLimitStore.others[1].entry.resetAt
  /\ Len(uncleaned.others) = 2
  /\ clock > uncleaned.others[1].entry.resetAt
  /\ lastCheck.had
  /\ lastCheck.after.count = 2
  /\ lastCheck.allowed

\* C36: a call changes no entry of another key whose window is in force, a
\* call is answered 429 only when the calls of its own key in the current
\* window exceed the limit, and a call without CF-Connecting-IP is counted
\* under the key 'unknown'.
C36_PerKeyCounting ==
  /\ [](lastCheck.key # ""
          => /\ lastCheck.key = (IF lastCheck.ip = "" THEN "unknown" ELSE lastCheck.ip)
             /\ ~lastCheck.allowed
                  => (lastCheck.had /\ lastCheck.before.count >= AuthMaxRequests))
  /\ [](lastAuth.response.status = 429 => lastAuth.n > AuthMaxRequests)
  /\ [][nCalls' = nCalls + 1
          => /\ \A k \in DOMAIN rateLimitStore.named :
                  (k # lastCheck'.key /\ clock <= rateLimitStore.named[k].resetAt)
                    => /\ k \in DOMAIN rateLimitStore'.named
                       /\ rateLimitStore'.named[k] = rateLimitStore.named[k]
             /\ \A g \in Range(rateLimitStore.others) :
                  clock <= g.entry.resetAt => g \in Range(rateLimitStore'.others)]_vars

C36_Witness ==
  /\ lastCheck.ip = ""
  /\ lastCheck.key = "unknown"
  /\ lastAuth.key = "unknown"
  /\ lastAuth.response.status = 401
  /\ lastCheck.after.count = 1
  /\ RateIp \in DOMAIN rateLimitStore.named
  /\ lastCheck.now <= rateLimitStore.named[RateIp].resetAt
  /\ rateLimitStore.named[RateIp].count > AuthMaxRequests

(***************************************************************************)
(* The frame of a profile update                                           *)
(***************************************************************************)

\* the ids of the profiles of document d, in order
ProfileIds(d) == [j \in 1..Len(d.profiles) |-> d.profiles[j].id]

\* C37: the version a successful PUT /profiles commits differs from the one
\* before it only in the name of the first profile with the payload's id:
\* the ids and their order, every other field of that profile, every other
\* profile and every restaurant with its tags are the same, whatever else the
\* payload carries.
C37_OnlyNameChanges ==
  \A i \in 2..Len(commits) :
    commits[i].inp.op = "PUT /profiles"
      => LET before == commits[i].prev
             after == commits[i].doc
             body == commits[i].inp.body
         IN  /\ after.restaurants = before.restaurants
             /\ after.hasR = before.hasR
             /\ after.hasP = before.hasP
             /\ ProfileIds(after) = ProfileIds(before)
             /\ \E k \in 1..Len(before.profiles) :
                  /\ before.profiles[k].id = body.id
                  /\ \A j \in 1..(k - 1) : before.profiles[j].id # body.id
                  /\ after.profiles =
                       [before.profiles EXCEPT
                          ![k] = [before.profiles[k] EXCEPT !.name = body.name]]

C37_Witness ==
  \E i \in 2..Len(commits) :
    /\ commits[i].inp.op = "PUT /profiles"
    /\ commits[i].inp.body = RichProfileBody
    /\ commits[i].prev = SeedDoc
    /\ commits[i].doc.profiles[3] = Profile(Str("p2"), Str("Soup"))
    /\ store.doc = commits[i].doc
    /\ reqs[1].pc = "done"
    /\ reqs[1].status = 200


\* the signature segment of the token decodes to the HMAC of its first two
\* segments under the secret of env
SignatureMatches(token) ==
  /\ Truthy(env.JWT_SECRET)
  /\ token.signature.b64
  /\ token.signature = HMAC(String(env.JWT_SECRET), <<token.header, token.payload>>)

\* the token has three segments, of which the payload decodes as JSON and the
\* signature decodes and matches: the segments verify reads
WellSigned(token) ==
  /\ token.nseg = 3
  /\ token.payload.json
  /\ SignatureMatches(token)

\* the token is well-formed and correctly signed: three segments that all
\* decode, and a signature that matches
WellFormedAndSigned(token) == WellSigned(token) /\ token.header.json

\* C38 as stated: verify returns false, and does not throw, for every token
\* that is not well-formed and correctly signed, a token with any segment
\* that fails to decode included: the request bearing it is answered 401
\* before any store call.
C38_MalformedIsInvalid ==
  LET q == reqs[1]
  IN  (q.pc # "idle" /\ IsWrite(q.inp))
        => /\ (q.inp.hdr.present /\ q.inp.hdr.scheme = "Bearer "
                 /\ ~WellFormedAndSigned(q.inp.hdr.token))
                => (q.pc = "done" /\ q.status = 401 /\ q.fetches = 0)
           /\ (q.pc # "done" \/ q.status # 401)
                => SignatureMatches(q.inp.hdr.token)

\* C38: verify returns false, and does not throw, for a token of other than
\* three segments, a signature segment that does not decode or is not the
\* HMAC of the first two segments under the secret, or a payload segment that
\* does not decode: the request is answered 401 before any store call; a
\* request that passes the check bears a token whose signature matches.  The
\* header segment is not decoded: a token that differs from an accepted one
\* in the header alone, and is signed over that header, is accepted as well.
C38_UnreadableIsInvalid ==
  LET q == reqs[1]
  IN  (q.pc # "idle" /\ IsWrite(q.inp))
        => /\ (q.inp.hdr.present /\ q.inp.hdr.scheme = "Bearer "
                 /\ ~WellSigned(q.inp.hdr.token))
                => (q.pc = "done" /\ q.status = 401 /\ q.fetches = 0)
           /\ (q.pc # "done" \/ q.status # 401)
                => SignatureMatches(q.inp.hdr.token)
           /\ q.inp.hdr = Header("Bearer ", BadHeaderToken)
                => (q.status = 401 <=> ~verifyAuth(Good, env, q.inp.now))

C38_Witness ==
  /\ env = Configured
  /\ reqs[1].pc = "done"
  /\ reqs[1].inp.op = "POST /restaurants"
  /\ reqs[1].inp.hdr.token \in {GarbageToken, BadSignatureToken}
  /\ reqs[1].inp.hdr.scheme = "Bearer "
  /\ GarbageToken.signature = HMAC(Secret, <<JwtHeader, Garbage>>)
  /\ reqs[1].status = 401
  /\ reqs[1].fetches = 0

\* C39: a correctly signed token whose payload has a numeric exp below the
\* current epoch second is rejected, whatever the value of exp: the request
\* bearing it is answered 401.
C39_PastExpRejected ==
  LET q == reqs[1]
  IN  (/\ q.pc # "idle"
       /\ IsWrite(q.inp)
       /\ q.inp.hdr.present
       /\ q.inp.hdr.scheme = "Bearer "
       /\ WellSigned(q.inp.hdr.token)
       /\ q.inp.hdr.token.payload.hasExp
       /\ q.inp.hdr.token.payload.exp < q.inp.now \div 1000)
        => (q.pc = "done" /\ q.status = 401)

====
